---- MODULE Spec2Model ----
(***************************************************************************)
(* A model of phab-comments-to-md (src/src/main.rs): the extraction of     *)
(* review comments from Phabricator transactions and the resolution of     *)
(* empty inline comments through the authenticated web interface           *)
(* (credentials, reference discovery, scored changeset fetch, suggestion   *)
(* parsing).                                                               *)
(*                                                                         *)
(* Strings are sequences of tokens (a token is one character or one        *)
(* indivisible word), so that split, trim, find and join are computed.     *)
(***************************************************************************)
EXTENDS Integers, Sequences, FiniteSets, TLC

(***************************************************************************)
(* Strings                                                                 *)
(***************************************************************************)

\* char::is_whitespace, as used by str::trim
IsWs(c) == c \in {" ", "\t"}

RECURSIVE TrimStart(_)
TrimStart(s) ==
    IF s # <<>> /\ IsWs(Head(s)) THEN TrimStart(Tail(s)) ELSE s

RECURSIVE TrimEnd(_)
TrimEnd(s) ==
    IF s # <<>> /\ IsWs(s[Len(s)]) THEN TrimEnd(SubSeq(s, 1, Len(s) - 1)) ELSE s

\* str::trim
Trim(s) == TrimEnd(TrimStart(s))

\* str::find of a one-token pattern: the first index, 0 when absent
IndexOf(s, c) ==
    IF \E i \in 1..Len(s) : s[i] = c
    THEN CHOOSE i \in 1..Len(s) : s[i] = c /\ \A j \in 1..(i - 1) : s[j] # c
    ELSE 0

\* str::contains of a one-token pattern
Contains(s, c) == \E i \in 1..Len(s) : s[i] = c

\* str::split(sep): always at least one piece
RECURSIVE Split(_, _)
Split(s, sep) ==
    LET i == IndexOf(s, sep)
    IN  IF i = 0 THEN <<s>>
        ELSE <<SubSeq(s, 1, i - 1)>> \o Split(SubSeq(s, i + 1, Len(s)), sep)

\* [String]::join(sep)
RECURSIVE Join(_, _)
Join(parts, sep) ==
    IF parts = <<>> THEN <<>>
    ELSE IF Len(parts) = 1 THEN parts[1]
    ELSE parts[1] \o sep \o Join(Tail(parts), sep)

(***************************************************************************)
(* Credential Locator: extract_firefox_cookies and the browser store       *)
(***************************************************************************)

PHSID == <<"phsid">>
PHUSR == <<"phusr">>

\* HashMap::insert on a map from names to values
MapInsert(m, k, v) == [n \in (DOMAIN m) \cup {k} |-> IF n = k THEN v ELSE m[n]]

EmptyMap == [n \in {} |-> <<>>]

\* cookies.contains_key("phsid") && cookies.contains_key("phusr")
HasRequired(m) == PHSID \in DOMAIN m /\ PHUSR \in DOMAIN m

\* the loop without the trim of the value
RECURSIVE InsertPairsUntrimmed(_, _)
InsertPairsUntrimmed(m, pieces) ==
    IF pieces = <<>> THEN m
    ELSE LET cookie_pair == Trim(Head(pieces))
             eq == IndexOf(cookie_pair, "=")
         IN  IF eq = 0 THEN InsertPairsUntrimmed(m, Tail(pieces))
             ELSE InsertPairsUntrimmed(
                     MapInsert(m,
                               Trim(SubSeq(cookie_pair, 1, eq - 1)),
                               SubSeq(cookie_pair, eq + 1, Len(cookie_pair))),
                     Tail(pieces))

\* the loop over cookie_env.split(';')
RECURSIVE InsertPairs(_, _)
InsertPairs(m, pieces) ==
    IF pieces = <<>> THEN m
    ELSE LET cookie_pair == Trim(Head(pieces))
             eq == IndexOf(cookie_pair, "=")
         IN  IF eq = 0 THEN InsertPairs(m, Tail(pieces))
             ELSE InsertPairs(
                     MapInsert(m,
                               Trim(SubSeq(cookie_pair, 1, eq - 1)),
                               Trim(SubSeq(cookie_pair, eq + 1, Len(cookie_pair)))),
                     Tail(pieces))

ParseCookieEnv(cookie_env) == InsertPairs(EmptyMap, Split(cookie_env, ";"))

\* PHABRICATOR_COOKIES unset: std::env::var returns Err
NoEnv == <<"<unset>">>

\* host LIKE '%domain%' for the domain of base_url
HostLike(host) == host \in {"phab.test", "phab.test.mirror"}

\* SELECT COUNT(*) ... WHERE host LIKE ?1 AND (name = 'phsid' OR name = 'phusr')
RECURSIVE CountRequired(_)
CountRequired(rows) ==
    IF rows = <<>> THEN 0
    ELSE (IF HostLike(Head(rows).host) /\ Head(rows).name \in {PHSID, PHUSR}
          THEN 1 ELSE 0) + CountRequired(Tail(rows))

\* SELECT host, name, value ... WHERE host LIKE ?1, inserted row by row
RECURSIVE InsertRows(_, _)
InsertRows(m, rows) ==
    IF rows = <<>> THEN m
    ELSE InsertRows(IF HostLike(Head(rows).host)
                    THEN MapInsert(m, Head(rows).name, Head(rows).value)
                    ELSE m,
                    Tail(rows))

\* profiles.sort_by(|a, b| b.1.cmp(&a.1)): a stable sort, newest first, of the
\* indices of the profiles in read_dir order
RECURSIVE InsertNewestFirst(_, _, _)
InsertNewestFirst(sorted, i, profs) ==
    IF sorted = <<>> THEN <<i>>
    ELSE IF profs[Head(sorted)].mtime >= profs[i].mtime
         THEN <<Head(sorted)>> \o InsertNewestFirst(Tail(sorted), i, profs)
         ELSE <<i>> \o sorted

RECURSIVE SortNewestFirst(_, _)
SortNewestFirst(n, profs) ==
    IF n = 0 THEN <<>>
    ELSE InsertNewestFirst(SortNewestFirst(n - 1, profs), n, profs)

\* the scan of find_firefox_profile_dir over the sorted profiles: the index of
\* the first profile whose store counts two required rows, 0 when there is none
RECURSIVE ScanProfiles(_, _)
ScanProfiles(order, profs) ==
    IF order = <<>> THEN 0
    ELSE LET p == profs[Head(order)]
         IN  IF p.open \in {"ok", "locked", "malformed"} /\ CountRequired(p.rows) >= 2
             THEN Head(order)
             ELSE ScanProfiles(Tail(order), profs)

\* find_firefox_profile_dir: 0 is the Err result
find_firefox_profile_dir(store) ==
    IF ~store.dir \/ store.profiles = <<>> THEN 0
    ELSE ScanProfiles(SortNewestFirst(Len(store.profiles), store.profiles),
                      store.profiles)

\* extract_cookies_from_firefox_db: the result, and the temporary files it
\* leaves behind
extract_cookies_from_firefox_db(store) ==
    LET i == find_firefox_profile_dir(store)
        failed(temps) == [ok |-> FALSE, cookies |-> EmptyMap, temps |-> temps]
    IN  IF i = 0 THEN failed({})
        ELSE LET p == store.profiles[i]
                 cookies == InsertRows(EmptyMap, p.rows)
                 temp_db == IF p.open = "locked" THEN {"cookies_extract"} ELSE {}
             IN  IF p.open \notin {"ok", "locked"} THEN failed({})
                 ELSE IF ~HasRequired(cookies) THEN failed(temp_db)
                 ELSE [ok |-> TRUE, cookies |-> cookies, temps |-> {}]

\* extract_firefox_cookies: the result, whether the browser store was read, and
\* the temporary files left behind
extract_firefox_cookies(cookie_env, store) ==
    IF cookie_env # NoEnv /\ HasRequired(ParseCookieEnv(cookie_env))
    THEN [ok |-> TRUE, cookies |-> ParseCookieEnv(cookie_env),
          store_read |-> FALSE, temps |-> {}]
    ELSE LET r == extract_cookies_from_firefox_db(store)
         IN  [ok |-> r.ok, cookies |-> r.cookies, store_read |-> TRUE,
              temps |-> r.temps]

(***************************************************************************)
(* HTML fragments.  A fragment is a sequence of nodes; a node is a div     *)
(* (classes, children) or a table (classes, rows); a row is a sequence of  *)
(* cells; a cell has the class names of its attribute in order, its text   *)
(* and the nodes nested in it.                                             *)
(***************************************************************************)

Div(cls, kids) == [k |-> "div", cls |-> cls, kids |-> kids]
Table(cls, rows) == [k |-> "table", cls |-> cls, rows |-> rows]
Tr(cells) == [cells |-> cells]
Td(cls, text, kids) == [cls |-> cls, text |-> text, kids |-> kids]

\* the concatenation of F over the elements of a sequence
FlatMap(F(_), s) ==
    LET f[i \in 0..Len(s)] == IF i = 0 THEN <<>> ELSE f[i - 1] \o F(s[i])
    IN  f[Len(s)]

SeqToSet(s) == { s[i] : i \in 1..Len(s) }

\* ElementRef::text().collect::<String>(): the text nodes in document order
RECURSIVE NodeText(_)
CellText(c) == c.text \o FlatMap(NodeText, c.kids)
RowText(r) == FlatMap(CellText, r.cells)
NodeText(n) ==
    IF n.k = "div" THEN FlatMap(NodeText, n.kids) ELSE FlatMap(RowText, n.rows)

\* the class names and text tokens written in a fragment: what str::contains
\* of a marker word sees in the serialised HTML
RECURSIVE NodeWords(_)
CellWords(c) ==
    SeqToSet(c.cls) \cup SeqToSet(c.text) \cup UNION { NodeWords(c.kids[i]) : i \in 1..Len(c.kids) }
RowWords(r) == UNION { CellWords(r.cells[i]) : i \in 1..Len(r.cells) }
NodeWords(n) ==
    n.cls \cup
    (IF n.k = "div"
     THEN UNION { NodeWords(n.kids[i]) : i \in 1..Len(n.kids) }
     ELSE UNION { RowWords(n.rows[i]) : i \in 1..Len(n.rows) })

DocWords(doc) == UNION { NodeWords(doc[i]) : i \in 1..Len(doc) }

\* document.select("tr"): every row, in document order, nested rows included
RECURSIVE NodeRows(_)
CellRows(c) == FlatMap(NodeRows, c.kids)
RowRows(r) == <<r>> \o FlatMap(CellRows, r.cells)
NodeRows(n) ==
    IF n.k = "div" THEN FlatMap(NodeRows, n.kids) ELSE FlatMap(RowRows, n.rows)

DocRows(doc) == FlatMap(NodeRows, doc)

\* row.select(..): the cells below a row, in document order
RECURSIVE NodeCells(_)
CellCells(c) == <<c>> \o FlatMap(NodeCells, c.kids)
RowCells(r) == FlatMap(CellCells, r.cells)
NodeCells(n) ==
    IF n.k = "div" THEN FlatMap(NodeCells, n.kids) ELSE FlatMap(RowCells, n.rows)

\* element.select("table").next(): the first table below a node, as a one- or
\* zero-element sequence
RECURSIVE NodeTables(_)
CellTables(c) == FlatMap(NodeTables, c.kids)
RowTables(r) == FlatMap(CellTables, r.cells)
NodeTables(n) ==
    IF n.k = "div" THEN FlatMap(NodeTables, n.kids)
    ELSE <<n>> \o FlatMap(RowTables, n.rows)

\* the serialised fragment as the sequence of its tags and texts, for the
\* textual searches of extract_inline_suggestion: the word
\* inline-suggestion-view (in the tag that carries it), "<table", "</table>",
\* the rows, and every other tag or text
Other == [m |-> "other"]

RECURSIVE NodeMarks(_)
CellMarks(c) ==
    <<Other>> \o (IF c.text # <<>> THEN <<Other>> ELSE <<>>)
    \o FlatMap(NodeMarks, c.kids) \o <<Other>>
RowMarks(r) == <<[m |-> "tr", row |-> r]>> \o FlatMap(CellMarks, r.cells) \o <<Other>>
NodeMarks(n) ==
    IF n.k = "div"
    THEN <<IF "inline-suggestion-view" \in n.cls
           THEN [m |-> "inline-suggestion-view"] ELSE Other>>
         \o FlatMap(NodeMarks, n.kids) \o <<Other>>
    ELSE <<[m |-> "<table"]>> \o FlatMap(RowMarks, n.rows) \o <<[m |-> "</table>"]>>

DocMarks(doc) == FlatMap(NodeMarks, doc)

\* str::find(word) in the serialised fragment from position from on: the
\* index of the first such mark, 0 when there is none
FindMark(marks, word, from) ==
    IF \E i \in from..Len(marks) : marks[i].m = word
    THEN CHOOSE i \in from..Len(marks) :
            marks[i].m = word /\ \A j \in from..(i - 1) : marks[j].m # word
    ELSE 0

\* document.select(".inline-suggestion-view"): the matching elements in
\* document order, each with whether an ancestor carries inline-is-done
\* (is_suggestion_done walks up from the parent)
RECURSIVE NodeSuggestions(_, _)
NodeSuggestions(n, done) ==
    IF n.k = "div"
    THEN (IF "inline-suggestion-view" \in n.cls
          THEN <<[el |-> n, is_done |-> done]>> ELSE <<>>)
         \o LET below(kid) == NodeSuggestions(kid, done \/ "inline-is-done" \in n.cls)
            IN  FlatMap(below, n.kids)
    ELSE LET done_below == done \/ "inline-is-done" \in n.cls
             below(kid) == NodeSuggestions(kid, done_below)
             in_cell(c) == FlatMap(below, c.kids)
             in_row(r) == FlatMap(in_cell, r.cells)
         IN  FlatMap(in_row, n.rows)

DocSuggestions(doc) ==
    LET top(n) == NodeSuggestions(n, FALSE) IN FlatMap(top, doc)

(***************************************************************************)
(* Response bodies.  A JSON value is a string (its characters as written   *)
(* between the quotes), a string holding an HTML fragment, an object (its  *)
(* fields in the order of the text), an array, or a scalar.  A body is a   *)
(* JSON text or an HTML text, after an optional "for (;;);" prefix; a JSON *)
(* text that serde_json rejects (truncated) is a body that is not valid.   *)
(***************************************************************************)

JStr(raw) == [k |-> "str", raw |-> raw]
JHtml(doc) == [k |-> "html", doc |-> doc]
JObj(fields) == [k |-> "obj", fields |-> fields]
JArr(items) == [k |-> "arr", items |-> items]
JNum == [k |-> "num"]
JU64(n) == [k |-> "num", u64 |-> n]
JBool(b) == [k |-> "bool", b |-> b]
Field(key, val) == [key |-> key, val |-> val]

\* a body of at most 1000 bytes, and one of more
Body(prefix, valid, val) == [prefix |-> prefix, valid |-> valid, val |-> val, long |-> FALSE]
LongBody(prefix, valid, val) == [prefix |-> prefix, valid |-> valid, val |-> val, long |-> TRUE]

\* the words a str::contains on the body text can find: keys, string
\* contents, and the class names and text of embedded HTML
RECURSIVE ValueWords(_)
ValueWords(v) ==
    CASE v.k = "str" -> SeqToSet(v.raw)
      [] v.k = "html" -> DocWords(v.doc)
      [] v.k = "obj" ->
            UNION { {v.fields[i].key} \cup ValueWords(v.fields[i].val) : i \in 1..Len(v.fields) }
      [] v.k = "arr" -> UNION { ValueWords(v.items[i]) : i \in 1..Len(v.items) }
      [] OTHER -> {}

\* text.contains(word)
TextContains(body, word) == word \in ValueWords(body.val)

\* if response.starts_with("for (;;);") { response = &response[9..] }
StripPrefix(body) == [body EXCEPT !.prefix = FALSE]

\* serde_json::from_str: the value as a one-element sequence, empty on a parse
\* error.  A text that starts with the prefix or is cut short is not JSON, nor
\* is an HTML text.
from_str(body) ==
    IF ~body.prefix /\ body.valid /\ body.val.k # "html" THEN <<body.val>> ELSE <<>>

\* serde_json::from_str of the body after the prefix is stripped
FromStr(body) == from_str(StripPrefix(body))

\* Value::get(key): the member of an object, as a zero- or one-element sequence
Get(v, key) ==
    IF v.k = "obj" /\ \E i \in 1..Len(v.fields) : v.fields[i].key = key
    THEN <<v.fields[CHOOSE i \in 1..Len(v.fields) :
                      /\ v.fields[i].key = key
                      /\ \A j \in (i + 1)..Len(v.fields) : v.fields[j].key # key].val>>
    ELSE <<>>

\* data.get("payload").get("changeset").as_str(): the HTML fragment of a
\* parsed body as a one-element sequence; a plain string is a fragment
\* without elements
ChangesetHtml(data) ==
    LET payload == Get(data, "payload")
        changeset == IF payload = <<>> THEN <<>> ELSE Get(payload[1], "changeset")
    IN  IF changeset = <<>> THEN <<>>
        ELSE IF changeset[1].k = "html" THEN <<changeset[1].doc>>
        ELSE IF changeset[1].k = "str" THEN << <<>> >>
        ELSE <<>>

(***************************************************************************)
(* Unsigned integers.  A u32 is two limbs of 16 bits and a u64 four, the   *)
(* low limb first.                                                         *)
(***************************************************************************)

Limb == 65536

U32Max == <<Limb - 1, Limb - 1>>

\* a small number as a u32 and as a u64
U32(n) == <<n % Limb, n \div Limb>>
U64(n) == <<n % Limb, n \div Limb, 0, 0>>

\* v as u32 of a u64: the low 32 bits
AsU32(v) == <<v[1], v[2]>>

\* a u32 as the u64 of the same value
Widen(u) == <<u[1], u[2], 0, 0>>

\* u + n on u32 for a small n: the wrapped value, and whether it overflowed
AddU32(u, n) ==
    LET lo == u[1] + n
        hi == u[2] + (lo \div Limb)
    IN  [val |-> <<lo % Limb, hi % Limb>>, overflow |-> hi >= Limb]

\* u - n on u32 for a small n: the wrapped value, and whether it overflowed
SubU32(u, n) ==
    IF u[1] >= n THEN [val |-> <<u[1] - n, u[2]>>, overflow |-> FALSE]
    ELSE IF u[2] > 0 THEN [val |-> <<u[1] + Limb - n, u[2] - 1>>, overflow |-> FALSE]
    ELSE [val |-> <<u[1] + Limb - n, Limb - 1>>, overflow |-> TRUE]

IsZero(limbs) == \A i \in 1..Len(limbs) : limbs[i] = 0

\* limbs divided by ten: the quotient and the remainder, by long division
\* from the high limb down
DivTen(limbs) ==
    LET f[i \in 0..Len(limbs)] ==
            IF i = 0 THEN [q |-> <<>>, r |-> 0]
            ELSE LET cur == f[i - 1].r * Limb + limbs[Len(limbs) + 1 - i]
                 IN  [q |-> <<cur \div 10>> \o f[i - 1].q, r |-> cur % 10]
    IN  f[Len(limbs)]

Digits == <<"0", "1", "2", "3", "4", "5", "6", "7", "8", "9">>

\* to_string and format!("{}") of an unsigned integer: its decimal digits
RECURSIVE Decimal(_)
Decimal(limbs) ==
    LET d == DivTen(limbs)
    IN  IF IsZero(d.q) THEN <<Digits[d.r + 1]>>
        ELSE Decimal(d.q) \o <<Digits[d.r + 1]>>

\* Value::as_u64, Value::as_str, Value::as_bool: Some only for a value of the kind
as_u64(v) == IF v.k = "num" /\ "u64" \in DOMAIN v THEN <<v.u64>> ELSE <<>>

(***************************************************************************)
(* Suggestion Parser: the four strategies.  An Option<String> is <<>> for  *)
(* None and <<text>> for Some(text).                                       *)
(***************************************************************************)

\* str::trim_start_matches(pat): the pattern removed as often as it leads
RECURSIVE TrimStartMatches(_, _)
TrimStartMatches(s, pat) ==
    IF Len(s) >= Len(pat) /\ SubSeq(s, 1, Len(pat)) = pat
    THEN TrimStartMatches(SubSeq(s, Len(pat) + 1, Len(s)), pat)
    ELSE s

\* str::replace(pat, rep) for a two-token pattern, left to right
RECURSIVE ReplaceAll(_, _, _)
ReplaceAll(s, pat, rep) ==
    IF Len(s) < 2 THEN s
    ELSE IF SubSeq(s, 1, 2) = pat THEN rep \o ReplaceAll(SubSeq(s, 3, Len(s)), pat, rep)
    ELSE <<Head(s)>> \o ReplaceAll(Tail(s), pat, rep)

\* the three backquotes that open and close a fenced block
Fence == "<fence>"

\* format!("{header}\n\n<fence>diff\n{}\n<fence>", text)
Wrap(header, text) == <<header, "\n", "\n", Fence, "diff", "\n">> \o text \o <<"\n", Fence>>

\* whether a class attribute holds the two names side by side: what
\* row_html.contains("left old") finds
Adjacent(cls, a, b) == \E i \in 1..(Len(cls) - 1) : cls[i] = a /\ cls[i + 1] = b

\* one row of extract_inline_suggestion: the lines it pushes
InlineRowLines(row) ==
    LET row_text == RowText(row)
        cells == RowCells(row)
        line(sign) ==
            LET cleaned == Trim(TrimStartMatches(Trim(row_text), <<sign, " ">>))
            IN  IF cleaned # <<>> /\ ~Contains(cleaned, "break;") /\ ~Contains(cleaned, "}")
                THEN << <<sign, " ">> \o cleaned >> ELSE <<>>
    IN  (IF \E i \in 1..Len(cells) : Adjacent(cells[i].cls, "left", "old")
         THEN line("-") ELSE <<>>)
        \o (IF \E i \in 1..Len(cells) : Adjacent(cells[i].cls, "right", "new")
            THEN line("+") ELSE <<>>)

\* the rows of the slice from "<table" to the first "</table>"
SliceRows(marks, from, to) ==
    LET f[i \in (from - 1)..to] ==
            IF i < from THEN <<>>
            ELSE f[i - 1] \o (IF marks[i].m = "tr" THEN <<marks[i].row>> ELSE <<>>)
    IN  f[to]

\* extract_inline_suggestion: the result, or a panic when the slice
\* &search_area[table_start..table_end + 8] starts after its end
extract_inline_suggestion(html) ==
    LET marks == DocMarks(html)
        start == FindMark(marks, "inline-suggestion-view", 1)
        table_start == IF start = 0 THEN 0 ELSE FindMark(marks, "<table", start)
        table_end == IF start = 0 THEN 0 ELSE FindMark(marks, "</table>", start)
        none == [panic |-> FALSE, out |-> <<>>]
    IN  IF start = 0 \/ table_start = 0 \/ table_end = 0 THEN none
        ELSE IF table_start > table_end + 1 THEN [panic |-> TRUE, out |-> <<>>]
        ELSE IF table_start = table_end + 1 THEN none
        ELSE LET diff_lines == FlatMap(InlineRowLines, SliceRows(marks, table_start, table_end))
             IN  IF diff_lines # <<>>
                 THEN [panic |-> FALSE, out |-> <<Join(diff_lines, <<"\n">>)>>]
                 ELSE none

\* the characters of a string literal taken as they are written
DecodeJsonRaw(raw) == raw

\* the string a JSON string literal denotes: serde_json resolves the escapes
RECURSIVE DecodeJson(_)
DecodeJson(raw) ==
    IF raw = <<>> THEN <<>>
    ELSE IF Head(raw) = "\\" /\ Len(raw) >= 2
         THEN << CASE raw[2] = "n" -> "\n"
                   [] raw[2] = "t" -> "\t"
                   [] raw[2] = "u003e" -> ">"
                   [] raw[2] = "u003c" -> "<"
                   [] OTHER -> raw[2] >> \o DecodeJson(SubSeq(raw, 3, Len(raw)))
         ELSE <<Head(raw)>> \o DecodeJson(Tail(raw))

\* the order of the members of a serde_json Map (a BTreeMap): by key
KeyOrder == <<"changeset", "data", "payload", "suggestionText", "view">>

KeyRank(key) == CHOOSE i \in 1..Len(KeyOrder) : KeyOrder[i] = key

\* the members of an object in the order of iteration
RECURSIVE InsertByKey(_, _)
InsertByKey(sorted, f) ==
    IF sorted = <<>> THEN <<f>>
    ELSE IF KeyRank(Head(sorted).key) <= KeyRank(f.key)
         THEN <<Head(sorted)>> \o InsertByKey(Tail(sorted), f)
         ELSE <<f>> \o sorted

RECURSIVE SortedFields(_)
SortedFields(fields) ==
    IF fields = <<>> THEN <<>>
    ELSE InsertByKey(SortedFields(SubSeq(fields, 1, Len(fields) - 1)), fields[Len(fields)])

\* the first non-empty result of F over a sequence, <<>> when there is none
FirstSome(F(_), s) ==
    LET f[i \in 0..Len(s)] ==
            IF i = 0 THEN <<>>
            ELSE IF f[i - 1] # <<>> THEN f[i - 1] ELSE F(s[i])
    IN  f[Len(s)]

\* find_suggestion_text_recursive
RECURSIVE find_suggestion_text_recursive(_)
find_suggestion_text_recursive(value) ==
    CASE value.k = "obj" ->
            LET st == Get(value, "suggestionText")
                text == IF st # <<>> /\ st[1].k = "str" THEN DecodeJson(st[1].raw) ELSE <<>>
                of_val(f) == find_suggestion_text_recursive(f.val)
            IN  IF /\ Trim(text) # <<>>
                   /\ (Contains(text, "uuuu") \/ Contains(text, "-") \/ Contains(text, "+"))
                THEN <<text>>
                ELSE FirstSome(of_val, SortedFields(value.fields))
      [] value.k = "arr" -> FirstSome(find_suggestion_text_recursive, value.items)
      [] OTHER -> <<>>

\* the capture of the regex "suggestionText":"((?:[^"\\]|\\.)*)" in the body
\* text: the characters of the first suggestionText member, in the order of
\* the text, that holds a string
RECURSIVE RegexCapture(_)
RegexCapture(v) ==
    CASE v.k = "obj" ->
            LET of_field(f) ==
                    IF f.key = "suggestionText" /\ f.val.k = "str" THEN <<f.val.raw>>
                    ELSE RegexCapture(f.val)
            IN  FirstSome(of_field, v.fields)
      [] v.k = "arr" -> FirstSome(RegexCapture, v.items)
      [] OTHER -> <<>>

\* the chain of replace calls on the captured characters
RegexUnescape(raw) ==
    ReplaceAll(
      ReplaceAll(
        ReplaceAll(
          ReplaceAll(
            ReplaceAll(
              ReplaceAll(
                ReplaceAll(raw, <<"\\", "n">>, <<"\n">>),
                <<"\\", "t">>, <<"\t">>),
              <<"\\", "u003e">>, <<">">>),
            <<"\\", "u003c">>, <<"<">>),
          <<"\\", "/">>, <<"/">>),
        <<"\\", "\"">>, <<"\"">>),
      <<"\\", "\\">>, <<"\\">>)

SuggestedHeader == "**Suggested changes:**"
CodeHeader == "**Code changes:**"

VARIABLES
    parse_args,    \* parse_suggestions_from_ajax: the line number and the file path of the call
    parses         \* the calls of it that have returned: arguments and value

\* a JSON strategy that gives its text to the first call only
extract_suggestion_from_json_once(json_response) ==
    LET parsed == FromStr(json_response)
        found == IF parsed = <<>> THEN <<>> ELSE find_suggestion_text_recursive(parsed[1])
    IN  IF parses = <<>> /\ found # <<>> /\ Trim(found[1]) # <<>>
        THEN <<Wrap(SuggestedHeader, Trim(found[1]))>>
        ELSE <<>>

\* extract_suggestion_from_json
extract_suggestion_from_json(json_response) ==
    LET parsed == FromStr(json_response)
        found == IF parsed = <<>> THEN <<>> ELSE find_suggestion_text_recursive(parsed[1])
        captured == RegexCapture(json_response.val)
        suggestion_text == IF captured = <<>> THEN <<>> ELSE RegexUnescape(captured[1])
    IN  IF found # <<>> /\ Trim(found[1]) # <<>>
        THEN <<Wrap(SuggestedHeader, Trim(found[1]))>>
        ELSE IF captured # <<>> /\ Trim(suggestion_text) # <<>>
        THEN <<Wrap(SuggestedHeader, Trim(suggestion_text))>>
        ELSE <<>>

\* the first cell below a row that the selector matches, as a zero- or
\* one-element sequence
FirstCell(row, Matches(_)) ==
    LET cells == RowCells(row)
    IN  IF \E i \in 1..Len(cells) : Matches(cells[i])
        THEN <<cells[CHOOSE i \in 1..Len(cells) :
                       Matches(cells[i]) /\ \A j \in 1..(i - 1) : ~Matches(cells[j])]>>
        ELSE <<>>

HasClass(c, name) == name \in SeqToSet(c.cls)

\* one row of extract_diff_from_changeset: td.old, then td.new
DiffRowLines(row) ==
    LET is_old(c) == HasClass(c, "old")
        is_new(c) == HasClass(c, "new")
        line(sign, cell) ==
            IF cell # <<>> /\ Trim(CellText(cell[1])) # <<>>
            THEN << <<sign, " ">> \o Trim(CellText(cell[1])) >> ELSE <<>>
    IN  line("-", FirstCell(row, is_old)) \o line("+", FirstCell(row, is_new))

\* extract_diff_from_changeset
extract_diff_from_changeset(ajax_response) ==
    LET parsed == FromStr(ajax_response)
        html == IF parsed = <<>> THEN <<>> ELSE ChangesetHtml(parsed[1])
        diff_lines == IF html = <<>> THEN <<>> ELSE FlatMap(DiffRowLines, DocRows(html[1]))
    IN  IF diff_lines # <<>> THEN <<Join(diff_lines, <<"\n">>)>> ELSE <<>>

\* one row of extract_suggestion_from_table: the selector groups
\* "td.left.old, td.old, .diff-old" and "td.right.new, td.new, .diff-new"
TableRowLines(row) ==
    LET is_old(c) ==
            \/ HasClass(c, "left") /\ HasClass(c, "old")
            \/ HasClass(c, "old")
            \/ HasClass(c, "diff-old")
        is_new(c) ==
            \/ HasClass(c, "right") /\ HasClass(c, "new")
            \/ HasClass(c, "new")
            \/ HasClass(c, "diff-new")
        line(sign, cell) ==
            LET text == IF cell = <<>> THEN <<>> ELSE Trim(CellText(cell[1]))
                cleaned == Trim(TrimStartMatches(text, <<sign, " ">>))
            IN  IF text # <<>> /\ text # <<sign>> /\ cleaned # <<>>
                THEN << <<sign, " ">> \o cleaned >> ELSE <<>>
    IN  line("-", FirstCell(row, is_old)) \o line("+", FirstCell(row, is_new))

\* extract_suggestion_from_table: the rows of the first table below the element
extract_suggestion_from_table(suggestion_element) ==
    LET tables == FlatMap(NodeTables, suggestion_element.kids)
        diff_lines == IF tables = <<>> THEN <<>>
                      ELSE FlatMap(TableRowLines, FlatMap(RowRows, tables[1].rows))
    IN  IF diff_lines # <<>> THEN <<Join(diff_lines, <<"\n">>)>> ELSE <<>>

\* a selector strategy that looks at the line of the comment
find_suggestions_in_html_at_line(document, include_done) ==
    LET of_suggestion(sg) ==
            IF sg.is_done /\ ~include_done THEN <<>>
            ELSE extract_suggestion_from_table(sg.el)
    IN  IF parse_args[1] = U32(7) THEN FirstSome(of_suggestion, DocSuggestions(document))
        ELSE <<>>

\* find_suggestions_in_html: the first suggestion, not done unless done ones
\* are included, whose table gives lines
find_suggestions_in_html(document, include_done) ==
    LET of_suggestion(sg) ==
            IF sg.is_done /\ ~include_done THEN <<>>
            ELSE extract_suggestion_from_table(sg.el)
    IN  FirstSome(of_suggestion, DocSuggestions(document))

(***************************************************************************)
(* Changeset Fetcher: the score of a response body                         *)
(***************************************************************************)

ScoreSuggestionText == 100
ScoreInlineView == 10
ScoreInlineComment == 1

\* the score of fetch_changeset_with_refs
Score(text) ==
    (IF TextContains(text, "suggestionText") THEN ScoreSuggestionText ELSE 0)
    + (IF TextContains(text, "inline-suggestion-view") THEN ScoreInlineView ELSE 0)
    + (IF TextContains(text, "differential-inline-comment") THEN ScoreInlineComment ELSE 0)

(***************************************************************************)
(* Reference discovery.  The text of a revision page is the sequence of    *)
(* the digit strings in it, each with the way it is written:               *)
(*   "ref="   ref=<digits>            "url"    differential/changeset/?ref= *)
(*   "json"   "ref":"<digits>"        "jskey"  'ref': '<digits>'           *)
(*   "jsstr"  ref: '<digits>'         "jsnum"  ref: <digits>               *)
(*   "htmlid" C<digits>OL1            "bare"   <digits> between non-words  *)
(***************************************************************************)

RefOcc(enc, digits) == [enc |-> enc, digits |-> digits]

\* if !refs.contains(&ref_value) { refs.push(ref_value) } over the matches
CollectRefs(refs, items, Matches(_)) ==
    LET f[i \in 0..Len(items)] ==
            IF i = 0 THEN refs
            ELSE IF Matches(items[i]) /\ items[i].digits \notin SeqToSet(f[i - 1])
                 THEN Append(f[i - 1], items[i].digits)
                 ELSE f[i - 1]
    IN  f[Len(items)]

\* the five patterns of the second stage, in the order of the vec
AlternatePatterns == <<"json", "jskey", "jsstr", "jsnum", "htmlid">>

\* the cascade without the test refs.contains(&ref_value)
extract_ref_parameters_repeated(items) ==
    LET digits(o) == <<o.digits>>
        simple == SelectSeq(items, LAMBDA o : o.enc \in {"ref=", "url"})
        alternate(pat) ==
            FlatMap(digits, SelectSeq(items, LAMBDA o :
                                /\ o.enc = pat
                                /\ Len(o.digits) >= 7
                                /\ pat = "htmlid" => Len(o.digits) <= 8))
        stage2 == FlatMap(alternate, AlternatePatterns)
        bare == SelectSeq(items, LAMBDA o : o.enc = "bare" /\ Len(o.digits) \in 7..8)
    IN  IF simple # <<>> THEN FlatMap(digits, simple)
        ELSE IF stage2 # <<>> THEN stage2
        ELSE FlatMap(digits, bare)

\* the bare tokens collected whether or not the alternate patterns matched
extract_ref_parameters_pooled(items) ==
    LET simple(o) == o.enc \in {"ref=", "url"}
        alternate(o) ==
            /\ o.enc \in SeqToSet(AlternatePatterns)
            /\ Len(o.digits) >= 7
            /\ o.enc = "htmlid" => Len(o.digits) <= 8
        bare(o) == o.enc = "bare" /\ Len(o.digits) \in 7..8
        stage1 == CollectRefs(<<>>, items, simple)
    IN  IF stage1 # <<>> THEN stage1
        ELSE CollectRefs(CollectRefs(<<>>, items, alternate), items, bare)

\* the regexes of extract_ref_parameters_from_page over the page text
extract_ref_parameters(items) ==
    LET simple(o) == o.enc \in {"ref=", "url"}
        alternate(pat) ==
            [o \in SeqToSet(items) |->
                /\ o.enc = pat
                /\ Len(o.digits) >= 7
                /\ pat = "htmlid" => Len(o.digits) <= 8]
        pooled[i \in 0..Len(AlternatePatterns)] ==
            IF i = 0 THEN <<>>
            ELSE LET m(o) == alternate(AlternatePatterns[i])[o]
                 IN  CollectRefs(pooled[i - 1], items, m)
        bare(o) == o.enc = "bare" /\ Len(o.digits) \in 7..8
        in_url(o) == o.enc = "url"
        stage1 == CollectRefs(<<>>, items, simple)
        stage2 == pooled[Len(AlternatePatterns)]
        stage3 == IF stage2 = <<>> THEN CollectRefs(<<>>, items, bare) ELSE stage2
    IN  IF stage1 # <<>> THEN stage1 ELSE CollectRefs(stage3, items, in_url)

(***************************************************************************)
(* Transactions and the comments recorded from them                        *)
(***************************************************************************)

JNull == [k |-> "null"]

as_str(v) == IF v.k = "str" THEN <<DecodeJson(v.raw)>> ELSE <<>>

as_bool(v) == IF v.k = "bool" THEN <<v.b>> ELSE <<>>

\* Value::to_string: the JSON text of the value
to_string(v) ==
    CASE v.k = "num" /\ "u64" \in DOMAIN v -> Decimal(v.u64)
      [] v.k = "str" -> <<"\"">> \o v.raw \o <<"\"">>
      [] v.k = "bool" -> IF v.b THEN <<"true">> ELSE <<"false">>
      [] OTHER -> <<"null">>

\* Option::unwrap_or
UnwrapOr(opt, default) == IF opt = <<>> THEN default ELSE opt[1]

\* fields.get(key).and_then(f)
GetAnd(fields, key, F(_)) ==
    IF Get(fields, key) = <<>> THEN <<>> ELSE F(Get(fields, key)[1])

\* fields.get("line").and_then(|v| v.as_u64()).unwrap_or(0) as u32
LineNumber(fields) == AsU32(UnwrapOr(GetAnd(fields, "line", as_u64), U64(0)))

\* fields.get("length").and_then(|v| v.as_u64()).unwrap_or(1) as u32
LineLength(fields) == AsU32(UnwrapOr(GetAnd(fields, "length", as_u64), U64(1)))

\* fields.get("path").and_then(|v| v.as_str()).unwrap_or("")
FilePath(fields) == UnwrapOr(GetAnd(fields, "path", as_str), <<>>)

\* fields.get("diff").and_then(|v| v.get("id")).map(|v| v.to_string())
DiffId(fields) ==
    LET diff == Get(fields, "diff")
        id == IF diff = <<>> THEN <<>> ELSE Get(diff[1], "id")
    IN  IF id = <<>> THEN <<>> ELSE to_string(id[1])

\* fields.get("isDone").and_then(|v| v.as_bool()).unwrap_or(false)
IsDone(fields) == UnwrapOr(GetAnd(fields, "isDone", as_bool), FALSE)

\* the suggestion pipeline is tried for an empty inline comment on either
\* condition alone
ShouldFetchEither(line_number, file_path) == ~IsZero(line_number) \/ file_path # <<>>

\* if line_number > 0 && !file_path.is_empty()
ShouldFetch(line_number, file_path) == ~IsZero(line_number) /\ file_path # <<>>

EmptyCommentText == <<"*[Empty comment]*">>

InlinePlaceholder ==
    <<"*[Empty inline comment - likely contains a code suggestion that cannot be extracted via API]*">>

\* two decimal digits of a number below 100
TwoDigits(n) == <<Digits[(n \div 10) + 1], Digits[(n % 10) + 1]>>

\* format_timestamp, %Y-%m-%d %H:%M:%S, for a time within the first day
format_timestamp(t) ==
    <<"1970-01-01", " ">> \o TwoDigits(t \div 3600) \o <<":">>
    \o TwoDigits((t % 3600) \div 60) \o <<":">> \o TwoDigits(t % 60)

\* get_user_info past the cache: the name for the answer of user.search
DisplayName(outcome, user_phid) ==
    IF ~outcome.ok \/ outcome.error_code # <<>> \/ outcome.data = <<>> THEN user_phid
    ELSE LET real_name == UnwrapOr(outcome.data[1].real_name, <<>>)
             username == UnwrapOr(outcome.data[1].username, <<>>)
         IN  IF real_name # <<>>
             THEN (IF username # <<>> THEN real_name \o <<" ", "(">> \o username \o <<")">>
                   ELSE real_name)
             ELSE IF username # <<>> THEN username
             ELSE user_phid

\* the identifiers get_changeset_ids collects from the transactions
\* (Rust's if-let chain: the id as a string, else as a number)
DiffIdsOf(txns) ==
    LET of_txn(t) ==
            LET diff == IF t.fields = <<>> THEN <<>> ELSE Get(t.fields[1], "diff")
                id == IF diff = <<>> THEN <<>> ELSE Get(diff[1], "id")
            IN  IF id = <<>> THEN <<>>
                ELSE IF as_str(id[1]) # <<>> THEN <<as_str(id[1])[1]>>
                ELSE IF as_u64(id[1]) # <<>> THEN <<Decimal(as_u64(id[1])[1])>>
                ELSE <<>>
    IN  FlatMap(of_txn, txns)

\* try_fetch_specific_changeset: whether the body is taken
AcceptSpecific(text) ==
    \/ TextContains(text, "inline-suggestion-view")
    \/ TextContains(text, "suggestionText")
    \/ (text.long /\ TextContains(text, "differential-diff"))

\* try_fetch_file_specific_changeset: whether the body is taken
AcceptProbe(text) ==
    \/ TextContains(text, "inline-suggestion-view")
    \/ TextContains(text, "suggestionText")

(***************************************************************************)
(* Inputs of the credential lookup                                         *)
(***************************************************************************)

\* the most name=value pairs in an override string
MaxPairs == 3

CookieNames == {PHSID, PHUSR, <<"other">>}
CookieValues == {<<"a">>, <<"b", "=", " ", "c">>}

\* whitespace before the name, after the name, before the value, after it
WsPatterns ==
    { <<<<>>, <<>>, <<>>, <<>>>>,
      <<<<"\t", " ">>, <<" ">>, <<" ">>, <<" ", "\t">>>> }

PairSpecs == [name : CookieNames, value : CookieValues, ws : WsPatterns]

PairLists == UNION { [1..n -> PairSpecs] : n \in 0..MaxPairs }

\* one pair as it is written in the override string
PairText(p) ==
    p.ws[1] \o p.name \o p.ws[2] \o <<"=">> \o p.ws[3] \o p.value \o p.ws[4]

RECURSIVE PairTexts(_)
PairTexts(pairs) ==
    IF pairs = <<>> THEN <<>> ELSE <<PairText(Head(pairs))>> \o PairTexts(Tail(pairs))

\* the override string of a list of pairs
OverrideString(pairs) == Join(PairTexts(pairs), <<";">>)

Row(h, n, v) == [host |-> h, name |-> n, value |-> v]

RowLists ==
    { <<>>,
      <<Row("phab.test", PHSID, <<"s1">>), Row("phab.test", PHUSR, <<"u1">>)>>,
      <<Row("phab.test", PHSID, <<"s2">>), Row("phab.test", PHUSR, <<"u2">>)>>,
      <<Row("phab.test", PHSID, <<"s1">>), Row("phab.test.mirror", PHSID, <<"s3">>)>>,
      <<Row("other.test", PHSID, <<"s4">>), Row("other.test", PHUSR, <<"u4">>)>> }

ProfileSet == [mtime : 1..2, open : {"ok", "locked", "malformed", "error"}, rows : RowLists]

\* the browser stores of the pure-function specification
SampleStores ==
    { [dir |-> FALSE, profiles |-> <<>>] }
    \cup { [dir |-> TRUE, profiles |-> <<p>>] :
             p \in { q \in ProfileSet : /\ q.mtime = 1
                                        /\ q.open = "ok"
                                        /\ q.rows # <<>>
                                        /\ q.rows[1].value = <<"s1">> } }

MaxProfiles == 2

\* the profile directories of the browser-store specification, in read_dir
\* order
ProfileLists == UNION { [1..n -> ProfileSet] : n \in 0..MaxProfiles }

\* the browser stores of the browser-store specification
StoreSet ==
    { [dir |-> FALSE, profiles |-> <<>>] }
    \cup { [dir |-> TRUE, profiles |-> ps] : ps \in ProfileLists }

\* the settings of PHABRICATOR_COOKIES of the browser-store specification:
\* unset, incomplete, complete
StoreOverrides ==
    { <<>>,
      <<[name |-> PHSID, value |-> <<"a">>, ws |-> <<<<>>, <<>>, <<>>, <<>>>>]>>,
      <<[name |-> PHSID, value |-> <<"a">>, ws |-> <<<<>>, <<>>, <<>>, <<>>>>],
        [name |-> PHUSR, value |-> <<"a">>, ws |-> <<<<>>, <<>>, <<>>, <<>>>>]>> }

(***************************************************************************)
(* State                                                                   *)
(***************************************************************************)

VARIABLES
    pc,            \* the position of the single thread of control
    cookie_env,    \* the value of PHABRICATOR_COOKIES, NoEnv when unset
    env_pairs,     \* the pairs cookie_env was written from
    store,         \* the browser profiles and their cookie stores
    store_changes, \* how often the browser has rewritten its store during the run
    temp_files,    \* the temporary copies of cookie stores that exist
    store_reads,   \* how often the browser store has been read
    cookies_out,   \* the last result of extract_firefox_cookies
    server,        \* what the web server can answer: its pages and bodies
    net,           \* the requests sent so far, in order
    ref_params,    \* fetch_changeset_with_refs: the references to try
    page_html,     \* extract_ref_parameters_from_page: the text of the page it read
    ref_i,         \* the index of the next reference of the loop
    csrf_token,    \* the anti-forgery token sent with each POST
    best_response, \* the retained body, <<>> for None
    best_score,    \* the score of the retained body
    received,      \* the outcome of each POST of the loop so far, in order
    fetch_result,  \* the value fetch_changeset_with_refs returned
    ajax_response, \* parse_suggestions_from_ajax: the body under parse, <<>> when idle
    include_done,  \* the include_done flag of the run
    strategy,      \* the strategy the parser is about to try, 0 when idle
    tried,         \* the strategies tried on the body so far, with what each gave
    parse_result,  \* the value parse_suggestions_from_ajax returned
    transactions,  \* extract_comments_with_progress: the transactions of the revision
    current_revision_id, \* the revision of the run, <<>> for None
    overflow_checks, \* whether the build checks integer overflow
    txn_i,         \* the index of the transaction of the loop
    cmt_i,         \* the index of the comment of the transaction
    author_name,   \* the display name of the author of the transaction
    user_cache,    \* the display names looked up so far
    comments_data, \* the comments and review actions recorded so far
    markdown,      \* format_as_markdown: the text it returned, <<>> before it has
    changeset_ids, \* fetch_changeset_data: the identifiers of the fallback
    id_i,          \* the index of the next identifier or probe
    potential_refs \* try_fetch_file_specific_changeset: the probes

credVars == <<cookie_env, env_pairs, store, store_changes, temp_files, store_reads, cookies_out>>

fetchVars == <<ref_params, page_html, ref_i, csrf_token, best_response, best_score, received, fetch_result>>

parseVars == <<ajax_response, include_done, strategy, tried, parse_result, parse_args, parses>>

inputVars == <<transactions, current_revision_id, overflow_checks>>

runVars == <<inputVars, markdown, txn_i, cmt_i, author_name, user_cache, comments_data,
             changeset_ids, id_i, potential_refs>>

vars == <<pc, credVars, server, net, fetchVars, parseVars, runVars>>

NoResult == [ok |-> FALSE, cookies |-> EmptyMap, store_read |-> FALSE, temps |-> {}]

\* no web server is involved
NoServer == [pages |-> {}, bodies |-> {}]

\* the fetch loop has not run
FetchIdle ==
    /\ ref_params = <<>>
    /\ page_html = <<>>
    /\ ref_i = 0
    /\ csrf_token = "-"
    /\ best_response = <<>>
    /\ best_score = 0
    /\ received = <<>>
    /\ fetch_result = <<>>

\* the parser has not run
ParseIdle ==
    /\ ajax_response = <<>>
    /\ strategy = 0
    /\ tried = <<>>
    /\ parse_result = <<>>
    /\ parse_args = <<>>
    /\ parses = <<>>

NoComments == [general_comments |-> <<>>, inline_comments |-> <<>>, review_actions |-> <<>>]

\* no extraction run is under way
RunIdle ==
    /\ transactions = <<>>
    /\ current_revision_id = <<>>
    /\ overflow_checks = FALSE
    /\ txn_i = 0
    /\ cmt_i = 0
    /\ author_name = <<>>
    /\ user_cache = EmptyMap
    /\ comments_data = NoComments
    /\ markdown = <<>>
    /\ changeset_ids = <<>>
    /\ id_i = 0
    /\ potential_refs = <<>>

(***************************************************************************)
(* The credential lookup as a pure function of the override and the store  *)
(***************************************************************************)

CookieInit ==
    /\ pc = "cookie_call"
    /\ env_pairs \in PairLists
    /\ cookie_env \in {OverrideString(env_pairs)} \cup
                       (IF env_pairs = <<>> THEN {NoEnv} ELSE {})
    /\ store \in SampleStores
    /\ store_changes = 0
    /\ temp_files = {}
    /\ store_reads = 0
    /\ cookies_out = NoResult
    /\ server = NoServer
    /\ net = <<>>
    /\ FetchIdle
    /\ ParseIdle
    /\ include_done = FALSE
    /\ RunIdle

\* one call of extract_firefox_cookies
CookieCall ==
    /\ pc = "cookie_call"
    /\ LET r == extract_firefox_cookies(cookie_env, store)
       IN  /\ cookies_out' = r
           /\ store_reads' = store_reads + (IF r.store_read THEN 1 ELSE 0)
           /\ temp_files' = temp_files \cup r.temps
    /\ pc' = "cookie_done"
    /\ UNCHANGED <<cookie_env, env_pairs, store, store_changes, server, net, fetchVars, parseVars,
                   runVars>>

CookieNext == CookieCall

SpecCookie == CookieInit /\ [][CookieNext]_vars

\* the credential lookup over several profiles, locked and unreadable stores
StoreInit ==
    /\ pc = "cookie_call"
    /\ env_pairs \in StoreOverrides
    /\ cookie_env = (IF env_pairs = <<>> THEN NoEnv ELSE OverrideString(env_pairs))
    /\ store \in StoreSet
    /\ store_changes = 0
    /\ temp_files = {}
    /\ store_reads = 0
    /\ cookies_out = NoResult
    /\ server = NoServer
    /\ net = <<>>
    /\ FetchIdle
    /\ ParseIdle
    /\ include_done = FALSE
    /\ RunIdle

SpecStore == StoreInit /\ [][CookieNext]_vars

(***************************************************************************)
(* Token Resolver and Changeset Fetcher                                    *)
(***************************************************************************)

\* the most references handed to fetch_changeset_with_refs
MaxRefs == 3

\* how often the browser may rewrite its cookie store during one run
MaxStoreChanges == 1

\* the headers and cookies of a request: the Cookie header is attached when
\* the credential lookup succeeded with a non-empty map
CookieHeader(r) == IF r.ok /\ DOMAIN r.cookies # {} THEN <<r.cookies>> ELSE <<>>

\* a request, and the comment of the run it is sent for
Request(kind, ref, r, csrf) ==
    [kind |-> kind, ref |-> ref, cookies |-> CookieHeader(r), csrf |-> csrf,
     at |-> <<txn_i, cmt_i>>]

\* the state change of one call of extract_firefox_cookies
ReadCookies(r) ==
    /\ cookies_out' = r
    /\ store_reads' = store_reads + (IF r.store_read THEN 1 ELSE 0)
    /\ temp_files' = temp_files \cup r.temps

\* what a GET of the revision page can give: a failed request or a page
PageOutcomes == {[ok |-> FALSE]} \cup { [ok |-> TRUE, page |-> p] : p \in server.pages }

\* what a POST to the changeset endpoint can give: a failed request (or an
\* unreadable body) or a body
PostOutcomes == {[ok |-> FALSE]} \cup { [ok |-> TRUE, text |-> b] : b \in server.bodies }

\* get_csrf_token_with_cookies: the hidden-field pattern, then the JSON
\* literal pattern; <<>> is None
CsrfOfPage(outcome) ==
    IF ~outcome.ok THEN <<>>
    ELSE IF outcome.page.csrf_hidden # <<>> THEN outcome.page.csrf_hidden
    ELSE outcome.page.csrf_current

\* the comparison of the candidate with the best so far, ties included
BetterOrEqual(score, best) == score >= best

\* if score > best_score
Better(score, best) == score > best

\* fetch_changeset_with_refs up to its loop: the token GET with the cookies
\* of a credential lookup, then best_response = None, best_score = 0
FetchToken ==
    /\ pc = "fetch_token"
    /\ LET r == extract_firefox_cookies(cookie_env, store)
       IN  /\ ReadCookies(r)
           /\ \E outcome \in PageOutcomes :
                /\ csrf_token' = (IF CsrfOfPage(outcome) = <<>> THEN "dummy"
                                  ELSE CsrfOfPage(outcome)[1])
                /\ net' = Append(net, Request("GET token", "-", r, "-"))
    /\ ref_i' = 1
    /\ best_response' = <<>>
    /\ best_score' = 0
    /\ received' = <<>>
    /\ pc' = "fetch_loop"
    /\ UNCHANGED <<cookie_env, env_pairs, store, store_changes, server, ref_params, page_html, fetch_result,
                   parseVars, runVars>>

\* a loop that goes through ref_params from its end
FetchPostReversed ==
    /\ pc = "fetch_loop"
    /\ ref_i <= Len(ref_params)
    /\ LET r == extract_firefox_cookies(cookie_env, store)
       IN  /\ ReadCookies(r)
           /\ net' = Append(net, Request("POST changeset",
                                         ref_params[Len(ref_params) + 1 - ref_i], r, csrf_token))
    /\ \E outcome \in PostOutcomes :
         /\ received' = Append(received, outcome)
         /\ IF outcome.ok /\ Better(Score(outcome.text), best_score)
            THEN /\ best_score' = Score(outcome.text)
                 /\ best_response' = <<outcome.text>>
            ELSE UNCHANGED <<best_score, best_response>>
    /\ ref_i' = ref_i + 1
    /\ UNCHANGED <<pc, cookie_env, env_pairs, store, store_changes, server, ref_params, page_html,
                   csrf_token, fetch_result, parseVars, runVars>>

\* one iteration of the loop over ref_params: a credential lookup, the POST,
\* and the scoring of the body
FetchPost ==
    /\ pc = "fetch_loop"
    /\ ref_i <= Len(ref_params)
    /\ LET r == extract_firefox_cookies(cookie_env, store)
       IN  /\ ReadCookies(r)
           /\ net' = Append(net, Request("POST changeset", ref_params[ref_i], r, csrf_token))
    /\ \E outcome \in PostOutcomes :
         /\ received' = Append(received, outcome)
         /\ IF outcome.ok /\ Better(Score(outcome.text), best_score)
            THEN /\ best_score' = Score(outcome.text)
                 /\ best_response' = <<outcome.text>>
            ELSE UNCHANGED <<best_score, best_response>>
    /\ ref_i' = ref_i + 1
    /\ UNCHANGED <<pc, cookie_env, env_pairs, store, store_changes, server, ref_params, page_html,
                   csrf_token, fetch_result, parseVars, runVars>>

\* the end of the loop: return best_response
FetchReturn ==
    /\ pc = "fetch_loop"
    /\ ref_i > Len(ref_params)
    /\ fetch_result' = best_response
    /\ pc' = "fetch_done"
    /\ UNCHANGED <<credVars, server, net, ref_params, page_html, ref_i, csrf_token, best_response,
                   best_score, received, parseVars, runVars>>

\* a store with one readable profile that holds both cookies
SessionStore(sid) ==
    [dir |-> TRUE,
     profiles |-> <<[mtime |-> 1, open |-> "ok",
                     rows |-> <<Row("phab.test", PHSID, <<sid>>),
                                Row("phab.test", PHUSR, <<"u1">>)>>]>>]

NoFirefox == [dir |-> FALSE, profiles |-> <<>>]

\* the stores the browser can hold during a run
RunStores == { SessionStore("s1"), SessionStore("s2"), NoFirefox }

\* what the running browser makes of its store: a new session, then none
NextStore(st) ==
    IF st = SessionStore("s1") THEN SessionStore("s2")
    ELSE IF st = SessionStore("s2") THEN NoFirefox
    ELSE SessionStore("s1")

\* the running browser rewrites its cookie store between two lookups
BrowserWrites ==
    /\ pc \in {"fetch_loop"}
    /\ store_changes < MaxStoreChanges
    /\ store' = NextStore(store)
    /\ store_changes' = store_changes + 1
    /\ UNCHANGED <<pc, cookie_env, env_pairs, temp_files, store_reads, cookies_out,
                   server, net, fetchVars, parseVars,
                   runVars>>

\* a body with the given markers: a suggestionText member, an
\* inline-suggestion-view element, a differential-inline-comment element
MarkedBody(prefix, st, view, cmt) ==
    Body(prefix, TRUE,
         JObj(<<Field("payload",
                      JObj(<<Field("changeset",
                                   JHtml(<<Div(IF cmt THEN {"differential-inline-comment"} ELSE {},
                                               IF view THEN <<Div({"inline-suggestion-view"}, <<>>)>>
                                               ELSE <<>>)>>))>>))>>
              \o (IF st THEN <<Field("suggestionText", JStr(<<"-", "x">>))>> ELSE <<>>)))

\* bodies of score 0, 1, 10, 100 and 111, and a second body of score 1 and of
\* score 100
ScoreBodies ==
    { MarkedBody(FALSE, FALSE, FALSE, FALSE), MarkedBody(FALSE, FALSE, FALSE, TRUE),
      MarkedBody(FALSE, FALSE, TRUE, FALSE), MarkedBody(FALSE, TRUE, FALSE, FALSE),
      MarkedBody(FALSE, TRUE, TRUE, TRUE),
      MarkedBody(TRUE, TRUE, FALSE, FALSE), MarkedBody(TRUE, FALSE, FALSE, TRUE) }

Page(hidden, current) == [csrf_hidden |-> hidden, csrf_current |-> current]

TokenPages == { Page(<<"tokH">>, <<"tokJ">>) }

RefNames == <<"8450617", "8450618", "8450619", "8450620", "8450621">>

\* fetch_changeset_with_refs called with one to MaxRefs references
FetchInit ==
    /\ pc = "fetch_token"
    /\ env_pairs = <<>>
    /\ cookie_env = NoEnv
    /\ store \in RunStores
    /\ store_changes = 0
    /\ temp_files = {}
    /\ store_reads = 0
    /\ cookies_out = NoResult
    /\ server = [pages |-> TokenPages, bodies |-> ScoreBodies]
    /\ net = <<>>
    /\ \E n \in 1..MaxRefs : ref_params = SubSeq(RefNames, 1, n)
    /\ page_html = <<>>
    /\ ref_i = 0
    /\ csrf_token = "-"
    /\ best_response = <<>>
    /\ best_score = 0
    /\ received = <<>>
    /\ fetch_result = <<>>
    /\ ParseIdle
    /\ include_done = FALSE
    /\ RunIdle

FetchNext == FetchToken \/ FetchPost \/ FetchReturn \/ BrowserWrites

SpecFetch == FetchInit /\ [][FetchNext]_vars

(***************************************************************************)
(* Suggestion Parser: parse_suggestions_from_ajax, one step per strategy   *)
(***************************************************************************)

\* the row diff placed before the JSON suggestion text
StrategyOrderSwapped == <<1, 3, 2, 4>>

\* the strategies in the order of the function body: 1 the inline suggestion
\* view, 2 the JSON suggestion text, 3 the row diff, 4 the HTML selectors
StrategyOrder == <<1, 2, 3, 4>>

\* the strategy that follows one, 0 after the last
NextStrategy(st) ==
    LET i == CHOOSE j \in 1..Len(StrategyOrder) : StrategyOrder[j] = st
    IN  IF i < Len(StrategyOrder) THEN StrategyOrder[i + 1] ELSE 0

\* a strategy has given its result: return it if it is Some, go on to the
\* next strategy if not, return None after the last
StrategyGave(st, out) ==
    /\ tried' = Append(tried, [s |-> st, out |-> out])
    /\ IF out # <<>> \/ NextStrategy(st) = 0
       THEN /\ parse_result' = out
            /\ parses' = Append(parses, [body |-> ajax_response[1], include_done |-> include_done,
                                         args |-> parse_args, out |-> out])
            /\ strategy' = 0
            /\ pc' = "parse_done"
       ELSE /\ strategy' = NextStrategy(st)
            /\ UNCHANGED <<pc, parse_result, parses>>

\* strategy 1, only for a body that contains inline-suggestion-view
ParseInline ==
    /\ pc = "parse"
    /\ strategy = 1
    /\ LET body == ajax_response[1]
           data == FromStr(body)
           html == IF data = <<>> THEN <<>> ELSE ChangesetHtml(data[1])
       IN  IF ~TextContains(body, "inline-suggestion-view")
           THEN /\ strategy' = NextStrategy(1)
                /\ UNCHANGED <<pc, tried, parse_result, parses>>
           ELSE IF html = <<>> THEN StrategyGave(1, <<>>)
           ELSE IF extract_inline_suggestion(html[1]).panic
           THEN /\ pc' = "panic"
                /\ UNCHANGED <<strategy, tried, parse_result, parses>>
           ELSE StrategyGave(1, extract_inline_suggestion(html[1]).out)
    /\ UNCHANGED <<credVars, server, net, fetchVars, ajax_response, include_done, parse_args,
                   runVars>>

\* strategy 2
ParseJson ==
    /\ pc = "parse"
    /\ strategy = 2
    /\ StrategyGave(2, extract_suggestion_from_json(ajax_response[1]))
    /\ UNCHANGED <<credVars, server, net, fetchVars, ajax_response, include_done, parse_args,
                   runVars>>

\* strategy 3
ParseRowDiff ==
    /\ pc = "parse"
    /\ strategy = 3
    /\ LET diff_content == extract_diff_from_changeset(ajax_response[1])
       IN  StrategyGave(3, IF diff_content = <<>> THEN <<>>
                           ELSE <<Wrap(CodeHeader, diff_content[1])>>)
    /\ UNCHANGED <<credVars, server, net, fetchVars, ajax_response, include_done, parse_args,
                   runVars>>

\* strategy 4: the HTML of payload.changeset when the body is JSON, the body
\* itself when it is not
ParseSelector ==
    /\ pc = "parse"
    /\ strategy = 4
    /\ LET body == ajax_response[1]
           data == FromStr(body)
           html == IF data = <<>> THEN <<>> ELSE ChangesetHtml(data[1])
           document == IF body.val.k = "html" THEN body.val.doc ELSE <<>>
       IN  StrategyGave(4, IF data # <<>>
                           THEN (IF html = <<>> THEN <<>>
                                 ELSE find_suggestions_in_html(html[1], include_done))
                           ELSE find_suggestions_in_html(document, include_done))
    /\ UNCHANGED <<credVars, server, net, fetchVars, ajax_response, include_done, parse_args,
                   runVars>>

\* rows of a suggestion table: the old line and the new line in two rows
\* (one column) or in one row (two columns)
OneUp(ocls, ncls, otext, ntext) ==
    <<Tr(<<Td(ocls, otext, <<>>)>>), Tr(<<Td(ncls, ntext, <<>>)>>)>>

TwoUp(ocls, ncls, otext, ntext) ==
    <<Tr(<<Td(ocls, otext, <<>>), Td(ncls, ntext, <<>>)>>)>>

\* the class attributes of the old and the new cell
CellClasses ==
    { << <<"left", "old">>, <<"right", "new">> >>,
      << <<"old">>, <<"new">> >>,
      << <<"diff-old">>, <<"diff-new">> >> }

\* texts of an old cell: a line that starts with a sign, a closing brace, a
\* lone sign, a line that ends with a closing brace, a line that ends with an
\* opening brace
OldTexts ==
    { <<" ", "-", " ", "x", " ">>, <<"}">>, <<"-">>, <<"x", " ", "}">>,
      <<" ", " ", "foo()", " ", "{", " ", " ">> }

SuggestionRows ==
    { OneUp(c[1], c[2], t, <<"y">>) : c \in CellClasses, t \in OldTexts }
    \cup { TwoUp(c[1], c[2], t, <<"y">>) : c \in CellClasses, t \in OldTexts }

\* an inline comment, done or not, that holds one suggestion
Suggestion(done, rows) ==
    Div({"differential-inline-comment"} \cup (IF done THEN {"inline-is-done"} ELSE {}),
        <<Div({"inline-suggestion-view"}, <<Table({}, rows)>>)>>)

\* a suggestion view without a table of its own inside a diff table, and
\* the next table after it: directly, or inside a block of its own
ViewInTable == Table({"differential-diff"},
                     <<Tr(<<Td(<<>>, <<>>, <<Div({"inline-suggestion-view"}, <<>>)>>)>>)>>)

NextTable == Table({}, OneUp(<<"left", "old">>, <<"right", "new">>, <<"x">>, <<"y">>))

\* rows whose cells match different alternatives of a selector group: the
\* cell of the later alternative comes first in the row
MixedRows ==
    { <<Tr(<<Td(<<c>>, <<"a">>, <<>>), Td(<<"left", "old">>, <<"b">>, <<>>),
             Td(<<"new">>, <<"y">>, <<>>)>>)>> : c \in {"old", "diff-old"} }

ParseDocs ==
    { <<Suggestion(done, rows)>> : done \in BOOLEAN, rows \in SuggestionRows }
    \cup { <<Suggestion(FALSE, rows)>> : rows \in MixedRows }
    \cup { <<Suggestion(TRUE, OneUp(<<"diff-old">>, <<"diff-new">>, <<"x">>, <<"y">>)),
             Suggestion(FALSE, OneUp(<<"diff-old">>, <<"diff-new">>, <<"z">>, <<"w">>))>>,
           <<ViewInTable, NextTable>>,
           <<ViewInTable, Div({}, <<NextTable>>)>>,
           <<NextTable>>,
           <<>> }

\* a JSON body with the fragment in payload.changeset
ChangesetBody(prefix, doc) ==
    Body(prefix, TRUE, JObj(<<Field("payload", JObj(<<Field("changeset", JHtml(doc))>>))>>))

\* the characters of a suggestionText member: two diff lines joined by an
\* escaped newline, a text without a sign, blanks
SuggestionTexts ==
    { <<"-", "x", "\\", "n", "+", "y">>, <<"x">>, <<" ">> }

\* a JSON body with a suggestionText member, well-formed or cut short
TextBody(prefix, valid, raw) ==
    Body(prefix, valid,
         JObj(<<Field("payload", JObj(<<Field("view", JNum)>>)),
                Field("data", JArr(<<JObj(<<Field("suggestionText", JStr(raw))>>)>>))>>))

\* a JSON object that holds a suggestionText member and nothing else
FlatTextBody(prefix, raw) == Body(prefix, TRUE, JObj(<<Field("suggestionText", JStr(raw))>>))

ParseBodies ==
    { ChangesetBody(prefix, doc) : prefix \in BOOLEAN, doc \in ParseDocs }
    \cup { FlatTextBody(prefix, raw) : prefix \in BOOLEAN, raw \in SuggestionTexts }
    \cup { Body(FALSE, FALSE, JHtml(doc)) : doc \in ParseDocs }
    \cup { TextBody(prefix, valid, raw) :
             prefix \in BOOLEAN, valid \in BOOLEAN, raw \in SuggestionTexts }
    \cup { Body(FALSE, TRUE, JObj(<<Field("payload", JObj(<<Field("changeset", JNum)>>))>>)) }

\* parse_suggestions_from_ajax called with a body and a flag
ParseInit ==
    /\ pc = "parse"
    /\ env_pairs = <<>>
    /\ cookie_env = NoEnv
    /\ store = NoFirefox
    /\ store_changes = 0
    /\ temp_files = {}
    /\ store_reads = 0
    /\ cookies_out = NoResult
    /\ server = NoServer
    /\ net = <<>>
    /\ FetchIdle
    /\ \E body \in ParseBodies : ajax_response = <<body>>
    /\ include_done \in BOOLEAN
    /\ strategy = StrategyOrder[1]
    /\ tried = <<>>
    /\ parse_result = <<>>
    /\ parse_args = <<U32(7), <<"a.rs">>>>
    /\ parses = <<>>
    /\ RunIdle

ParseNext == ParseInline \/ ParseJson \/ ParseRowDiff \/ ParseSelector

SpecParse == ParseInit /\ [][ParseNext]_vars

MaxParses == 2

\* the line number and the file path of two inline comments
ParseArgs == { <<U32(7), <<"a.rs">>>>, <<U32(9), <<"b.rs">>>> }

\* parse_suggestions_from_ajax called for a comment of a run that has a
\* browser session
ReparseInit ==
    /\ pc = "parse"
    /\ env_pairs = <<>>
    /\ cookie_env = NoEnv
    /\ store = SessionStore("s1")
    /\ store_changes = 0
    /\ temp_files = {}
    /\ store_reads = 0
    /\ cookies_out = NoResult
    /\ server = NoServer
    /\ net = <<>>
    /\ FetchIdle
    /\ \E body \in ParseBodies : ajax_response = <<body>>
    /\ include_done \in BOOLEAN
    /\ strategy = StrategyOrder[1]
    /\ tried = <<>>
    /\ parse_result = <<>>
    /\ parse_args \in ParseArgs
    /\ parses = <<>>
    /\ RunIdle

\* fetch_suggestion_from_web for a later comment gets the same body and
\* calls the parser with it and with the line and the path of that comment
ParseAgain ==
    /\ pc = "parse_done"
    /\ Len(parses) < MaxParses
    /\ parse_args' \in ParseArgs
    /\ strategy' = StrategyOrder[1]
    /\ tried' = <<>>
    /\ parse_result' = <<>>
    /\ pc' = "parse"
    /\ UNCHANGED <<credVars, server, net, fetchVars, ajax_response, include_done, parses, runVars>>

\* a credential lookup of the pipeline between two calls of the parser
LookupBetween ==
    /\ pc = "parse_done"
    /\ cookies_out = NoResult
    /\ ReadCookies(extract_firefox_cookies(cookie_env, store))
    /\ UNCHANGED <<pc, cookie_env, env_pairs, store, store_changes, server, net, fetchVars,
                   parseVars, runVars>>

ReparseNext == ParseNext \/ ParseAgain \/ LookupBetween

SpecReparse == ReparseInit /\ [][ReparseNext]_vars

(***************************************************************************)
(* The extraction run: extract_comments_with_progress, and for an empty    *)
(* inline comment fetch_suggestion_from_web with fetch_changeset_data      *)
(***************************************************************************)

Unknown == <<"unknown">>

ReviewTypes == {"request-changes", "accept", "reject", "request-review"}

\* the transaction and the comment of the loops
Txn == transactions[txn_i]
Cmt == transactions[txn_i].comments[cmt_i]

\* transaction.transaction_type.as_deref().unwrap_or("unknown")
TypeOf(t) == UnwrapOr(t.transaction_type, "unknown")

\* transaction.fields.unwrap_or(serde_json::Value::Null)
FieldsOf(t) == UnwrapOr(t.fields, JNull)

\* comment.content.raw.unwrap_or_default()
RawOf(c) == UnwrapOr(c.raw, <<>>)

\* self.current_revision_id.unwrap_or(0)
RevisionId == UnwrapOr(current_revision_id, U32(0))

\* what user.search can give: a failed request (or an unreadable body) or an answer
UserOutcomes ==
    {[ok |-> FALSE]} \cup
    { [ok |-> TRUE, error_code |-> u.error_code, data |-> u.data] : u \in server.users }

\* what the calls of get_changeset_ids can give: revision.search fails;
\* transaction.search fails; the transactions of the revision, and the first
\* diff of differential.diff.search, <<>> for none
ApiOutcomes ==
    { [phid_ok |-> FALSE, txns_ok |-> FALSE, txns |-> <<>>, latest |-> <<>>],
      [phid_ok |-> TRUE, txns_ok |-> FALSE, txns |-> <<>>, latest |-> <<>>] }
    \cup { [phid_ok |-> TRUE, txns_ok |-> TRUE, txns |-> transactions, latest |-> l] :
             l \in server.diffs }

\* get_csrf_token: the content of the csrf-token meta tag when there is such
\* a tag, else the token of the first script that holds one; <<>> is None
CsrfOfMeta(outcome) ==
    IF ~outcome.ok THEN <<>>
    ELSE IF outcome.page.csrf_meta # <<>> THEN outcome.page.csrf_meta[1]
    ELSE outcome.page.csrf_script

\* the Comment pushed for a general comment; at is the place of the comment
\* in the transactions
GeneralRecord(t, c, name, at) ==
    [author |-> name,
     author_phid |-> UnwrapOr(t.author_phid, Unknown),
     date |-> format_timestamp(t.date_created),
     date_timestamp |-> t.date_created,
     content |-> IF RawOf(c) = <<>> THEN EmptyCommentText ELSE RawOf(c),
     transaction_id |-> to_string(t.id),
     comment_id |-> to_string(c.id),
     at |-> at]

\* the InlineComment pushed for an inline comment
InlineRecord(t, c, name, content, at) ==
    [author |-> name,
     author_phid |-> UnwrapOr(t.author_phid, Unknown),
     date |-> format_timestamp(t.date_created),
     date_timestamp |-> t.date_created,
     content |-> content,
     file_path |-> FilePath(FieldsOf(t)),
     line_number |-> LineNumber(FieldsOf(t)),
     line_length |-> LineLength(FieldsOf(t)),
     diff_id |-> DiffId(FieldsOf(t)),
     is_done |-> IsDone(FieldsOf(t)),
     transaction_id |-> to_string(t.id),
     comment_id |-> to_string(c.id),
     at |-> at]

\* the ReviewAction pushed for a review transaction
ReviewRecord(t, name) ==
    LET raw_of(c) == IF RawOf(c) # <<>> THEN <<RawOf(c)>> ELSE <<>>
    IN  [author |-> name,
         author_phid |-> UnwrapOr(t.author_phid, Unknown),
         date |-> format_timestamp(t.date_created),
         action |-> TypeOf(t),
         comments |-> FlatMap(raw_of, t.comments),
         transaction_id |-> to_string(t.id)]

\* a loop body that pushes done comments too
PushInlineAll(content) ==
    /\ comments_data' =
         [comments_data EXCEPT !.inline_comments =
            Append(@, InlineRecord(Txn, Cmt, author_name, content, <<txn_i, cmt_i>>))]
    /\ cmt_i' = cmt_i + 1

\* the end of the body of the loop over the comments of an inline
\* transaction: a done comment is skipped unless done comments are included
PushInline(content) ==
    /\ comments_data' =
         IF IsDone(FieldsOf(Txn)) /\ ~include_done THEN comments_data
         ELSE [comments_data EXCEPT !.inline_comments =
                 Append(@, InlineRecord(Txn, Cmt, author_name, content, <<txn_i, cmt_i>>))]
    /\ cmt_i' = cmt_i + 1

\* a lookup that keeps the name only when user.search gave an answer
UserInfoForgetful ==
    /\ pc = "txn"
    /\ txn_i <= Len(transactions)
    /\ LET user_phid == UnwrapOr(Txn.author_phid, Unknown)
       IN  IF user_phid \in DOMAIN user_cache
           THEN /\ author_name' = user_cache[user_phid]
                /\ UNCHANGED <<net, user_cache>>
           ELSE \E outcome \in UserOutcomes :
                  /\ net' = Append(net, Request("POST user.search", user_phid, NoResult, "-"))
                  /\ author_name' = DisplayName(outcome, user_phid)
                  /\ user_cache' = IF outcome.ok
                                   THEN MapInsert(user_cache, user_phid,
                                                  DisplayName(outcome, user_phid))
                                   ELSE user_cache
    /\ cmt_i' = 1
    /\ pc' = "match"
    /\ UNCHANGED <<credVars, server, fetchVars, parseVars, inputVars, markdown, txn_i,
                   comments_data, changeset_ids, id_i, potential_refs>>

\* get_user_info for the author of the next transaction
UserInfo ==
    /\ pc = "txn"
    /\ txn_i <= Len(transactions)
    /\ LET user_phid == UnwrapOr(Txn.author_phid, Unknown)
       IN  IF user_phid \in DOMAIN user_cache
           THEN /\ author_name' = user_cache[user_phid]
                /\ UNCHANGED <<net, user_cache>>
           ELSE \E outcome \in UserOutcomes :
                  /\ net' = Append(net, Request("POST user.search", user_phid, NoResult, "-"))
                  /\ author_name' = DisplayName(outcome, user_phid)
                  /\ user_cache' = MapInsert(user_cache, user_phid,
                                             DisplayName(outcome, user_phid))
    /\ cmt_i' = 1
    /\ pc' = "match"
    /\ UNCHANGED <<credVars, server, fetchVars, parseVars, inputVars, markdown, txn_i, comments_data,
                   changeset_ids, id_i, potential_refs>>

\* the end of the loop over the transactions
RunReturn ==
    /\ pc = "txn"
    /\ txn_i > Len(transactions)
    /\ pc' = "run_done"
    /\ UNCHANGED <<credVars, server, net, fetchVars, parseVars, runVars>>

\* one comment of a "comment" transaction
GeneralComment ==
    /\ pc = "match"
    /\ TypeOf(Txn) = "comment"
    /\ cmt_i <= Len(Txn.comments)
    /\ comments_data' = [comments_data EXCEPT !.general_comments =
                           Append(@, GeneralRecord(Txn, Cmt, author_name, <<txn_i, cmt_i>>))]
    /\ cmt_i' = cmt_i + 1
    /\ UNCHANGED <<pc, credVars, server, net, fetchVars, parseVars, inputVars, markdown, txn_i,
                   author_name, user_cache, changeset_ids, id_i, potential_refs>>

\* one comment of an "inline" transaction, up to the call of
\* fetch_suggestion_from_web when its content is empty and it has a line
\* and a path
InlineComment ==
    /\ pc = "match"
    /\ TypeOf(Txn) = "inline"
    /\ cmt_i <= Len(Txn.comments)
    /\ IF RawOf(Cmt) = <<>> /\ ShouldFetch(LineNumber(FieldsOf(Txn)), FilePath(FieldsOf(Txn)))
       THEN /\ pc' = "refs_page"
            /\ UNCHANGED <<cmt_i, comments_data>>
       ELSE /\ PushInline(IF RawOf(Cmt) = <<>> THEN InlinePlaceholder ELSE RawOf(Cmt))
            /\ UNCHANGED pc
    /\ UNCHANGED <<credVars, server, net, fetchVars, parseVars, inputVars, markdown, txn_i,
                   author_name, user_cache, changeset_ids, id_i, potential_refs>>

\* a review transaction
ReviewAction ==
    /\ pc = "match"
    /\ TypeOf(Txn) \in ReviewTypes
    /\ comments_data' = [comments_data EXCEPT !.review_actions =
                           Append(@, ReviewRecord(Txn, author_name))]
    /\ txn_i' = txn_i + 1
    /\ pc' = "txn"
    /\ UNCHANGED <<credVars, server, net, fetchVars, parseVars, inputVars, markdown, cmt_i,
                   author_name, user_cache, changeset_ids, id_i, potential_refs>>

\* the comments of the transaction are through, or its type is none of the above
NextTransaction ==
    /\ pc = "match"
    /\ \/ TypeOf(Txn) \in {"comment", "inline"} /\ cmt_i > Len(Txn.comments)
       \/ TypeOf(Txn) \notin {"comment", "inline"} \cup ReviewTypes
    /\ txn_i' = txn_i + 1
    /\ pc' = "txn"
    /\ UNCHANGED <<credVars, server, net, fetchVars, parseVars, inputVars, markdown, cmt_i,
                   author_name, user_cache, comments_data, changeset_ids, id_i,
                   potential_refs>>

\* extract_ref_parameters_from_page: the GET of the revision page with the
\* cookies of a credential lookup, and the references of its text
RefsPage ==
    /\ pc = "refs_page"
    /\ LET r == extract_firefox_cookies(cookie_env, store)
       IN  /\ ReadCookies(r)
           /\ net' = Append(net, Request("GET page", "-", r, "-"))
    /\ \E outcome \in PageOutcomes :
         LET refs == IF outcome.ok THEN extract_ref_parameters(outcome.page.items) ELSE <<>>
         IN  /\ page_html' = IF outcome.ok THEN <<outcome.page.items>> ELSE <<>>
             /\ ref_params' = refs
             /\ pc' = IF refs # <<>> THEN "fetch_token" ELSE "changeset_ids"
    /\ UNCHANGED <<cookie_env, env_pairs, store, store_changes, server, ref_i, csrf_token,
                   best_response, best_score, received, fetch_result, parseVars, runVars>>

\* the parser is called with a body
StartParse(body) ==
    /\ ajax_response' = <<body>>
    /\ strategy' = StrategyOrder[1]
    /\ tried' = <<>>
    /\ parse_result' = <<>>
    /\ parse_args' = <<LineNumber(FieldsOf(Txn)), FilePath(FieldsOf(Txn))>>
    /\ UNCHANGED parses
    /\ pc' = "parse"

\* fetch_changeset_data after fetch_changeset_with_refs: its body goes to
\* the parser, None leads to the fallback
AfterRefs ==
    /\ pc = "fetch_done"
    /\ IF fetch_result # <<>>
       THEN StartParse(fetch_result[1])
       ELSE /\ pc' = "changeset_ids"
            /\ UNCHANGED <<ajax_response, strategy, tried, parse_result, parse_args, parses>>
    /\ UNCHANGED <<credVars, server, net, fetchVars, include_done, runVars>>

\* get_changeset_ids: revision.search, transaction.search and the diff ids of
\* the transactions, differential.diff.search when there are none
GetChangesetIds ==
    /\ pc = "changeset_ids"
    /\ \E api \in ApiOutcomes :
         LET from_txns == DiffIdsOf(api.txns)
             searched == api.txns_ok /\ from_txns = <<>>
             latest == IF api.latest = <<>> THEN <<>>
                       ELSE IF as_str(api.latest[1]) # <<>> THEN as_str(api.latest[1])
                       ELSE IF as_u64(api.latest[1]) # <<>>
                            THEN <<Decimal(as_u64(api.latest[1])[1])>>
                       ELSE <<>>
             ids == IF searched THEN latest ELSE from_txns
             call(kind) == Request(kind, Decimal(RevisionId), NoResult, "-")
         IN  /\ net' = net \o <<call("POST revision.search")>>
                       \o (IF api.phid_ok THEN <<call("POST transaction.search")>> ELSE <<>>)
                       \o (IF searched THEN <<call("POST diff.search")>> ELSE <<>>)
             /\ changeset_ids' = ids
             /\ pc' = IF ids = <<>> THEN "web_none" ELSE "csrf"
    /\ UNCHANGED <<credVars, server, fetchVars, parseVars, inputVars, markdown, txn_i, cmt_i,
                   author_name, user_cache, comments_data, id_i, potential_refs>>

\* get_csrf_token: a GET of the revision page without cookies
GetCsrf ==
    /\ pc = "csrf"
    /\ net' = Append(net, Request("GET csrf", "-", NoResult, "-"))
    /\ \E outcome \in PageOutcomes :
         csrf_token' = (IF CsrfOfMeta(outcome) = <<>> THEN "dummy" ELSE CsrfOfMeta(outcome)[1])
    /\ id_i' = 1
    /\ pc' = "specific"
    /\ UNCHANGED <<credVars, server, ref_params, page_html, ref_i, best_response, best_score, received,
                   fetch_result, parseVars, inputVars, markdown, txn_i, cmt_i, author_name, user_cache,
                   comments_data, changeset_ids, potential_refs>>

\* try_fetch_specific_changeset for the next identifier
TrySpecific ==
    /\ pc = "specific"
    /\ id_i <= Len(changeset_ids)
    /\ net' = Append(net, Request("POST changeset", changeset_ids[id_i], NoResult, csrf_token))
    /\ \E outcome \in PostOutcomes :
         IF outcome.ok /\ AcceptSpecific(outcome.text)
         THEN /\ StartParse(outcome.text)
              /\ UNCHANGED id_i
         ELSE /\ id_i' = id_i + 1
              /\ UNCHANGED <<pc, ajax_response, strategy, tried, parse_result, parse_args,
                             parses>>
    /\ UNCHANGED <<credVars, server, fetchVars, include_done, inputVars, markdown, txn_i, cmt_i,
                   author_name, user_cache, comments_data, changeset_ids, potential_refs>>

\* try_fetch_file_specific_changeset up to its loop: the vec of the five
\* identifiers.  An overflow panics in a build that checks it and wraps in
\* one that does not.
StartProbes ==
    /\ pc = "specific"
    /\ id_i > Len(changeset_ids)
    /\ LET plus1 == AddU32(RevisionId, 1)
           plus2 == AddU32(RevisionId, 2)
           minus1 == SubU32(RevisionId, 1)
           minus2 == SubU32(RevisionId, 2)
       IN  IF /\ overflow_checks
              /\ (plus1.overflow \/ plus2.overflow \/ minus1.overflow \/ minus2.overflow)
           THEN /\ pc' = "panic"
                /\ UNCHANGED <<potential_refs, id_i>>
           ELSE /\ potential_refs' = <<Decimal(RevisionId), Decimal(plus1.val),
                                       Decimal(plus2.val), Decimal(minus1.val),
                                       Decimal(minus2.val)>>
                /\ id_i' = 1
                /\ pc' = "probe"
    /\ UNCHANGED <<credVars, server, net, fetchVars, parseVars, inputVars, markdown, txn_i, cmt_i,
                   author_name, user_cache, comments_data, changeset_ids>>

\* one iteration of the loop over potential_refs; None after the last
TryProbe ==
    /\ pc = "probe"
    /\ id_i <= Len(potential_refs)
    /\ net' = Append(net, Request("POST changeset", potential_refs[id_i], NoResult, csrf_token))
    /\ \E outcome \in PostOutcomes :
         IF outcome.ok /\ AcceptProbe(outcome.text)
         THEN /\ StartParse(outcome.text)
              /\ UNCHANGED id_i
         ELSE /\ id_i' = id_i + 1
              /\ pc' = (IF id_i = Len(potential_refs) THEN "web_none" ELSE "probe")
              /\ UNCHANGED <<ajax_response, strategy, tried, parse_result, parse_args, parses>>
    /\ UNCHANGED <<credVars, server, fetchVars, include_done, inputVars, markdown, txn_i, cmt_i,
                   author_name, user_cache, comments_data, changeset_ids, potential_refs>>

\* fetch_suggestion_from_web has returned: the suggestion, or the
\* placeholder for None, is the content of the comment
WebReturn ==
    /\ pc \in {"parse_done", "web_none"}
    /\ PushInline(IF pc = "parse_done" /\ parse_result # <<>> THEN parse_result[1]
                  ELSE InlinePlaceholder)
    /\ pc' = "match"
    /\ UNCHANGED <<credVars, server, net, fetchVars, parseVars, inputVars, markdown, txn_i,
                   author_name, user_cache, changeset_ids, id_i, potential_refs>>

(***************************************************************************)
(* Markdown Renderer: format_as_markdown                                   *)
(***************************************************************************)

BaseUrl == <<"https://phab.example">>
Tick == "<tick>"
DoneMarker == " [DONE]"
NoCommentText == <<"*[No comment text]*">>

\* the file paths of the runs in the order of str::cmp
PathOrder == << <<>>, <<"a.rs">>, <<"b.rs">>, <<"c.rs">> >>
PathRank(path) == CHOOSE i \in 1..Len(PathOrder) : PathOrder[i] = path

\* a <= b on u32
LeqU32(a, b) == a[2] < b[2] \/ (a[2] = b[2] /\ a[1] <= b[1])

\* a + b on u32: the wrapped value, and whether it overflowed
AddU32s(a, b) ==
    LET lo == a[1] + b[1]
        hi == a[2] + b[2] + (lo \div Limb)
    IN  [val |-> <<lo % Limb, hi % Limb>>, overflow |-> hi >= Limb]

\* sort_by_key(|c| c.date_timestamp): a stable sort
RECURSIVE InsertByStamp(_, _)
InsertByStamp(sorted, c) ==
    IF sorted = <<>> THEN <<c>>
    ELSE IF Head(sorted).date_timestamp <= c.date_timestamp
         THEN <<Head(sorted)>> \o InsertByStamp(Tail(sorted), c)
         ELSE <<c>> \o sorted

RECURSIVE SortByStamp(_)
SortByStamp(cs) ==
    IF cs = <<>> THEN <<>>
    ELSE InsertByStamp(SortByStamp(SubSeq(cs, 1, Len(cs) - 1)), cs[Len(cs)])

\* the order of the key (c.date_timestamp, c.file_path.clone(), c.line_number)
InlineKeyLeq(a, b) ==
    \/ a.date_timestamp < b.date_timestamp
    \/ /\ a.date_timestamp = b.date_timestamp
       /\ \/ PathRank(a.file_path) < PathRank(b.file_path)
          \/ a.file_path = b.file_path /\ LeqU32(a.line_number, b.line_number)

RECURSIVE InsertByInlineKey(_, _)
InsertByInlineKey(sorted, c) ==
    IF sorted = <<>> THEN <<c>>
    ELSE IF InlineKeyLeq(Head(sorted), c)
         THEN <<Head(sorted)>> \o InsertByInlineKey(Tail(sorted), c)
         ELSE <<c>> \o sorted

RECURSIVE SortByInlineKey(_)
SortByInlineKey(cs) ==
    IF cs = <<>> THEN <<>>
    ELSE InsertByInlineKey(SortByInlineKey(SubSeq(cs, 1, Len(cs) - 1)), cs[Len(cs)])

\* the entry of a file in the HashMap: its comments in the sorted order
OfFile(sorted, path) == SelectSeq(sorted, LAMBDA c : c.file_path = path)

\* comments.iter().map(|c| c.date_timestamp).min().unwrap_or(0)
MinStamp(cs) ==
    IF cs = <<>> THEN 0
    ELSE CHOOSE m \in { cs[i].date_timestamp : i \in 1..Len(cs) } :
            \A i \in 1..Len(cs) : m <= cs[i].date_timestamp

\* file_entries after its sort: the HashMap gives the files in an order of
\* its own, and the stable sort by the earliest timestamp keeps that order
\* among files whose earliest timestamps are equal
FileOrders(sorted) ==
    LET paths == { sorted[i].file_path : i \in 1..Len(sorted) }
    IN  { o \in [1..Cardinality(paths) -> paths] :
            /\ \A i, j \in DOMAIN o : i # j => o[i] # o[j]
            /\ \A i, j \in DOMAIN o :
                 i < j => MinStamp(OfFile(sorted, o[i])) <= MinStamp(OfFile(sorted, o[j])) }

\* line_info: "Line n-m" for a comment on more than one line, with whether
\* line_number + line_length - 1 overflows
LineInfo(c) ==
    LET sum == AddU32s(c.line_number, c.line_length)
        last == SubU32(sum.val, 1)
    IN  IF c.line_length[2] > 0 \/ c.line_length[1] > 1
        THEN [overflow |-> sum.overflow \/ last.overflow,
              text |-> <<"Line ">> \o Decimal(c.line_number) \o <<"-">> \o Decimal(last.val)]
        ELSE [overflow |-> FALSE, text |-> <<"Line ">> \o Decimal(c.line_number)]

\* the lines pushed for a general comment
GeneralLines(c) ==
    << <<"### Comment by ">> \o c.author \o <<" (">> \o c.date \o <<")">>,
       <<>>, c.content, <<>>, <<"---">>, <<>> >>

\* the heading of an inline comment
InlineHeading(c) ==
    <<"#### ">> \o LineInfo(c).text \o <<" - ">> \o c.author \o <<" (">> \o c.date \o <<")">>
    \o (IF c.is_done THEN <<DoneMarker>> ELSE <<>>)

\* the lines pushed for an inline comment
InlineLines(c) ==
    << InlineHeading(c), <<>>,
       IF c.content # <<>> THEN c.content ELSE NoCommentText,
       <<>>, <<"---">>, <<>> >>

\* format_as_markdown, with the files of the inline comments in the order
\* file_entries
format_as_markdown(data, diff_id, file_entries) ==
    LET sorted_comments == SortByStamp(data.general_comments)
        sorted_inline_comments == SortByInlineKey(data.inline_comments)
        of_file(path) ==
            << <<"### File: ", Tick>> \o path \o <<Tick>>, <<>> >>
            \o FlatMap(InlineLines, OfFile(sorted_inline_comments, path))
        md_lines ==
            << <<"# Phabricator Review Comments - ">> \o BaseUrl \o <<"/D">> \o Decimal(diff_id),
               <<>> >>
            \o (IF data.general_comments # <<>>
                THEN << <<"## General Comments">>, <<>> >> \o FlatMap(GeneralLines, sorted_comments)
                ELSE <<>>)
            \o (IF data.inline_comments # <<>>
                THEN << <<"## Inline Comments">>, <<>> >> \o FlatMap(of_file, file_entries)
                ELSE <<>>)
    IN  Join(md_lines, <<"\n">>)

\* extract_and_format after the extraction: the Markdown of the comments; a
\* build that checks overflow panics on a line range beyond 32 bits
FormatMarkdown ==
    /\ pc = "run_done"
    /\ LET sorted == SortByInlineKey(comments_data.inline_comments)
       IN  IF overflow_checks /\ \E i \in 1..Len(sorted) : LineInfo(sorted[i]).overflow
           THEN /\ pc' = "panic"
                /\ UNCHANGED markdown
           ELSE /\ \E file_entries \in FileOrders(sorted) :
                     markdown' = <<format_as_markdown(comments_data, RevisionId, file_entries)>>
                /\ pc' = "formatted"
    /\ UNCHANGED <<credVars, server, net, fetchVars, parseVars, inputVars, txn_i, cmt_i,
                   author_name, user_cache, comments_data, changeset_ids, id_i, potential_refs>>

(***************************************************************************)
(* Inputs of the extraction run                                            *)
(***************************************************************************)

Transaction(id, type, date, comments, fields) ==
    [id |-> id, transaction_type |-> type, author_phid |-> <<<<"PHID-USER-a">>>>,
     date_created |-> date, comments |-> comments, fields |-> fields]

CommentData(id, raw) == [id |-> id, raw |-> raw]

\* the line of an inline comment as the API gives it: none, 0, 7, 2^32 and
\* 2^32 + 1
LineValues == { <<>>, <<U64(0)>>, <<U64(7)>>, <<<<0, 0, 1, 0>>>>, <<<<1, 0, 1, 0>>>> }

PathValues == { <<>>, <<<<"a.rs">>>> }

\* the raw content of a comment: none, empty, a text
RawValues == { <<>>, << <<>> >>, <<<<"fix", " ", "this">>>> }

\* the fields of an inline transaction
InlineFields(line, path, done, diff) ==
    <<JObj((IF line = <<>> THEN <<>> ELSE <<Field("line", JU64(line[1]))>>)
           \o (IF path = <<>> THEN <<>> ELSE <<Field("path", JStr(path[1]))>>)
           \o (IF done THEN <<Field("isDone", JBool(TRUE))>> ELSE <<>>)
           \o (IF diff = <<>> THEN <<>>
               ELSE <<Field("diff", JObj(<<Field("id", diff[1])>>))>>))>>

InlineTransaction(line, path, done, diff, raw) ==
    Transaction(JU64(U64(41)), <<"inline">>, 3661, <<CommentData(JU64(U64(17)), raw)>>,
                InlineFields(line, path, done, diff))

GeneralTransaction(id, raw) ==
    Transaction(id, <<"comment">>, 59, <<CommentData(JU64(U64(18)), raw)>>, <<>>)

\* the runs: an empty inline comment with every line and path; an inline
\* comment on line 7 of a.rs with every content, done or not; a comment with
\* a text on a line beyond 32 bits; a transaction that names its diff;
\* general comments; a review action and transactions of other types; an
\* inline transaction with two comments
SampleRuns ==
    { <<InlineTransaction(line, path, FALSE, <<>>, <<>>)>> :
        line \in LineValues, path \in PathValues }
    \cup { <<InlineTransaction(<<U64(7)>>, <<<<"a.rs">>>>, done, <<>>, raw)>> :
             done \in BOOLEAN, raw \in RawValues \ {<<>>} }
    \cup { <<InlineTransaction(<<<<1, 0, 1, 0>>>>, <<<<"a.rs">>>>, FALSE, <<>>,
                               <<<<"fix">>>>)>>,
           <<InlineTransaction(<<U64(7)>>, <<<<"a.rs">>>>, FALSE,
                               <<JU64(U64(8450617))>>, <<>>)>> }
    \cup { <<GeneralTransaction(JU64(U64(40)), raw)>> : raw \in RawValues }
    \cup { <<Transaction(JU64(U64(42)), <<"accept">>, 60,
                         <<CommentData(JU64(U64(19)), <<<<"ok">>>>),
                           CommentData(JU64(U64(20)), <<>>)>>, <<>>),
             Transaction(JU64(U64(43)), <<"core:create">>, 61, <<>>, <<>>),
             Transaction(JU64(U64(44)), <<>>, 62, <<>>, <<>>)>>,
           <<Transaction(JU64(U64(45)), <<"inline">>, 63,
                         <<CommentData(JU64(U64(21)), <<<<"fix">>>>),
                           CommentData(JU64(U64(22)), <<>>)>>,
                         InlineFields(<<U64(0)>>, <<<<"a.rs">>>>, FALSE, <<>>))>> }

RefPage(hidden, current, meta, script, items) ==
    [csrf_hidden |-> hidden, csrf_current |-> current, csrf_meta |-> meta,
     csrf_script |-> script, items |-> items]

RunPages ==
    { RefPage(<<"tokH">>, <<>>, <<<<"tokM">>>>, <<>>,
              <<RefOcc("ref=", Decimal(U32(8450617)))>>),
      RefPage(<<>>, <<"tokJ">>, <<>>, <<"tokS">>, <<RefOcc("jsnum", <<"1", "2", "3">>)>>) }

\* bodies of the run: one with a suggestion, one whose suggestion view has
\* no table of its own, one with a blank suggestionText
RunBodies ==
    { ChangesetBody(TRUE, <<Suggestion(FALSE, OneUp(<<"left", "old">>, <<"right", "new">>,
                                                    <<"x">>, <<"y">>))>>),
      ChangesetBody(TRUE, <<ViewInTable, Div({}, <<NextTable>>)>>),
      TextBody(FALSE, TRUE, <<" ">>) }

RunUsers ==
    { [error_code |-> <<>>,
       data |-> <<[real_name |-> <<<<"Ann">>>>, username |-> <<<<"ann">>>>]>>] }

\* the servers of the run: each answers the revision URL with one page
RunServers ==
    { [pages |-> {page}, bodies |-> RunBodies, users |-> RunUsers,
       diffs |-> {<<>>, <<JStr(Decimal(U32(8450619)))>>}] : page \in RunPages }

\* the revision of the run and whether the build checks overflow
Builds ==
    { <<<<>>, FALSE>>, <<<<>>, TRUE>>, <<<<U32(5)>>, TRUE>>, <<<<U32Max>>, FALSE>> }

MaxItems == 2

\* how a reference can be written in the page: ref=N, ref=N in the query of a
\* changeset URL, "ref":"N", 'ref': 'N', ref: 'N', ref: N, CN[ON]Ln, a bare
\* number
RefEncodings == {"ref=", "url", "json", "jskey", "jsstr", "jsnum", "htmlid", "bare"}

\* identifiers of 3, 7, 8 and 9 digits
RefDigits ==
    { <<"1", "2", "3">>, Decimal(U32(8450617)), Decimal(U32(12345678)),
      Decimal(U32(123456789)) }

RefItems == { RefOcc(e, ds) : e \in RefEncodings, ds \in RefDigits }

\* the occurrences of a page text, in the order of the text
ItemLists == UNION { [1..n -> RefItems] : n \in 0..MaxItems }

\* extract_ref_parameters_from_page called on a server holding one page
RefsInit ==
    /\ pc = "refs_page"
    /\ env_pairs = <<>>
    /\ cookie_env = NoEnv
    /\ store = SessionStore("s1")
    /\ store_changes = 0
    /\ temp_files = {}
    /\ store_reads = 0
    /\ cookies_out = NoResult
    /\ \E items \in ItemLists :
          server = [pages |-> {RefPage(<<>>, <<>>, <<>>, <<>>, items)}, bodies |-> {}]
    /\ net = <<>>
    /\ FetchIdle
    /\ ParseIdle
    /\ include_done = FALSE
    /\ RunIdle

SpecRefs == RefsInit /\ [][RefsPage]_vars

\* extract_comments_with_progress called with the transactions of a revision
RunInit ==
    /\ pc = "txn"
    /\ env_pairs = <<>>
    /\ cookie_env = NoEnv
    /\ store \in {SessionStore("s1"), NoFirefox}
    /\ store_changes = 0
    /\ temp_files = {}
    /\ store_reads = 0
    /\ cookies_out = NoResult
    /\ server \in RunServers
    /\ net = <<>>
    /\ FetchIdle
    /\ ParseIdle
    /\ include_done \in BOOLEAN
    /\ transactions \in SampleRuns
    /\ \E b \in Builds : current_revision_id = b[1] /\ overflow_checks = b[2]
    /\ txn_i = 1
    /\ cmt_i = 0
    /\ author_name = <<>>
    /\ user_cache = EmptyMap
    /\ comments_data = NoComments
    /\ markdown = <<>>
    /\ changeset_ids = <<>>
    /\ id_i = 0
    /\ potential_refs = <<>>

Next ==
    \/ UserInfo \/ RunReturn \/ GeneralComment \/ InlineComment \/ ReviewAction
    \/ NextTransaction \/ RefsPage \/ FetchToken \/ FetchPost \/ FetchReturn \/ AfterRefs
    \/ GetChangesetIds \/ GetCsrf \/ TrySpecific \/ StartProbes \/ TryProbe
    \/ ParseInline \/ ParseJson \/ ParseRowDiff \/ ParseSelector \/ WebReturn
    \/ FormatMarkdown

Spec == RunInit /\ [][Next]_vars

\* revision pages of a resolution: one with two references, one with none
ResolvePages ==
    { RefPage(<<"tokH">>, <<>>, <<<<"tokM">>>>, <<>>,
              <<RefOcc("ref=", Decimal(U32(8450617))), RefOcc("ref=", Decimal(U32(12345678)))>>),
      RefPage(<<>>, <<"tokJ">>, <<>>, <<"tokS">>, <<RefOcc("jsnum", <<"1", "2", "3">>)>>) }

\* the revisions of a resolution: 0, 1, 5 and the greatest u32
ResolveIds == { U32(0), U32(1), U32(5), U32Max }

\* fetch_suggestion_from_web called for the empty comment of an inline
\* transaction on line 7 of a.rs, its author looked up without success
ResolveInit ==
    /\ pc = "refs_page"
    /\ env_pairs = <<>>
    /\ cookie_env = NoEnv
    /\ store \in {SessionStore("s1"), NoFirefox}
    /\ store_changes = 0
    /\ temp_files = {}
    /\ store_reads = 0
    /\ cookies_out = NoResult
    /\ \E page \in ResolvePages :
          server = [pages |-> {page}, bodies |-> RunBodies, users |-> RunUsers,
                    diffs |-> {<<>>, <<JStr(Decimal(U32(8450619)))>>}]
    /\ net = <<[kind |-> "POST user.search", ref |-> <<"PHID-USER-a">>,
                cookies |-> CookieHeader(NoResult), csrf |-> "-", at |-> <<1, 0>>]>>
    /\ FetchIdle
    /\ ParseIdle
    /\ include_done \in BOOLEAN
    /\ transactions = <<InlineTransaction(<<U64(7)>>, <<<<"a.rs">>>>, FALSE, <<>>, <<>>)>>
    /\ \E id \in ResolveIds : current_revision_id = <<id>>
    /\ overflow_checks \in BOOLEAN
    /\ txn_i = 1
    /\ cmt_i = 1
    /\ author_name = <<"PHID-USER-a">>
    /\ user_cache = MapInsert(EmptyMap, <<"PHID-USER-a">>, <<"PHID-USER-a">>)
    /\ comments_data = NoComments
    /\ markdown = <<>>
    /\ changeset_ids = <<>>
    /\ id_i = 0
    /\ potential_refs = <<>>

ResolveNext ==
    \/ RefsPage \/ FetchToken \/ FetchPost \/ FetchReturn \/ AfterRefs
    \/ GetChangesetIds \/ GetCsrf \/ TrySpecific \/ StartProbes \/ TryProbe
    \/ ParseInline \/ ParseJson \/ ParseRowDiff \/ ParseSelector \/ WebReturn

SpecResolve == ResolveInit /\ [][ResolveNext]_vars

MaxAuthored == 3

\* the authors of transactions: two users and none
AuthorValues == { <<<<"PHID-USER-a">>>>, <<<<"PHID-USER-b">>>>, <<>> }

\* what user.search can answer: a user with both names, one with a user
\* name only, an API error, no user
LookupUsers ==
    { [error_code |-> <<>>,
       data |-> <<[real_name |-> <<<<"Ann">>>>, username |-> <<<<"ann">>>>]>>],
      [error_code |-> <<>>, data |-> <<[real_name |-> <<>>, username |-> <<<<"bob">>>>]>>],
      [error_code |-> <<<<"ERR-CONDUIT-CORE">>>>, data |-> <<>>],
      [error_code |-> <<>>, data |-> <<>>] }

\* transactions that record nothing, by the authors in any order
AuthoredRuns ==
    { [i \in 1..Len(authors) |->
          [Transaction(JU64(U64(60 + i)), <<"core:create">>, 60 + i, <<>>, <<>>)
             EXCEPT !.author_phid = authors[i]]] :
        authors \in UNION { [1..m -> AuthorValues] : m \in 1..MaxAuthored } }

\* extract_comments_with_progress called with such transactions
UsersInit ==
    /\ pc = "txn"
    /\ env_pairs = <<>>
    /\ cookie_env = NoEnv
    /\ store = NoFirefox
    /\ store_changes = 0
    /\ temp_files = {}
    /\ store_reads = 0
    /\ cookies_out = NoResult
    /\ server = [pages |-> {}, bodies |-> {}, users |-> LookupUsers, diffs |-> {<<>>}]
    /\ net = <<>>
    /\ FetchIdle
    /\ ParseIdle
    /\ include_done = FALSE
    /\ transactions \in AuthoredRuns
    /\ current_revision_id = <<U32(5)>>
    /\ overflow_checks = FALSE
    /\ txn_i = 1
    /\ cmt_i = 0
    /\ author_name = <<>>
    /\ user_cache = EmptyMap
    /\ comments_data = NoComments
    /\ markdown = <<>>
    /\ changeset_ids = <<>>
    /\ id_i = 0
    /\ potential_refs = <<>>

UsersNext == UserInfo \/ NextTransaction \/ RunReturn

SpecUsers == UsersInit /\ [][UsersNext]_vars

MaxTxns == 3

\* an inline transaction with one comment that has a text
TextInline(id, date, path, line, more) ==
    Transaction(JU64(U64(id)), <<"inline">>, date,
                <<CommentData(JU64(U64(id + 100)), <<<<"fix">>>>)>>,
                <<JObj(<<Field("line", JU64(line)), Field("path", JStr(path))>> \o more)>>)

\* transactions of a revision: two general comments; inline comments on
\* three files, two of them at the same time; a done inline comment; one
\* whose isDone is false; one on three lines; one whose line range ends
\* beyond 32 bits; an accepted review with a comment
FormatPool ==
    { Transaction(JU64(U64(51)), <<"comment">>, 10,
                  <<CommentData(JU64(U64(151)), <<<<"first">>>>)>>, <<>>),
      Transaction(JU64(U64(52)), <<"comment">>, 20,
                  <<CommentData(JU64(U64(152)), <<<<"second">>>>)>>, <<>>),
      TextInline(53, 10, <<"a.rs">>, U64(7), <<>>),
      TextInline(54, 20, <<"b.rs">>, U64(9), <<Field("isDone", JBool(FALSE))>>),
      TextInline(55, 30, <<"a.rs">>, U64(7), <<Field("length", JU64(U64(3)))>>),
      TextInline(56, 40, <<"a.rs">>, U64(8), <<Field("isDone", JBool(TRUE))>>),
      TextInline(58, 10, <<"c.rs">>, <<Limb - 1, Limb - 1, 0, 0>>,
                 <<Field("length", JU64(U64(2)))>>),
      Transaction(JU64(U64(59)), <<"accept">>, 15,
                  <<CommentData(JU64(U64(159)), <<<<"ok">>>>)>>, <<>>) }

\* the transactions of a revision in any order
FormatRuns ==
    { txns \in UNION { [1..n -> FormatPool] : n \in 0..MaxTxns } :
        \A i, j \in DOMAIN txns : i # j => txns[i] # txns[j] }

\* extract_and_format called on a revision whose comments all have a text
FormatInit ==
    /\ pc = "txn"
    /\ env_pairs = <<>>
    /\ cookie_env = NoEnv
    /\ store = NoFirefox
    /\ store_changes = 0
    /\ temp_files = {}
    /\ store_reads = 0
    /\ cookies_out = NoResult
    /\ server = [pages |-> {}, bodies |-> {}, users |-> RunUsers, diffs |-> {<<>>}]
    /\ net = <<>>
    /\ FetchIdle
    /\ ParseIdle
    /\ include_done \in BOOLEAN
    /\ transactions \in FormatRuns
    /\ current_revision_id = <<U32(5)>>
    /\ overflow_checks \in BOOLEAN
    /\ txn_i = 1
    /\ cmt_i = 0
    /\ author_name = <<>>
    /\ user_cache = EmptyMap
    /\ comments_data = NoComments
    /\ markdown = <<>>
    /\ changeset_ids = <<>>
    /\ id_i = 0
    /\ potential_refs = <<>>

FormatNext ==
    \/ UserInfo \/ RunReturn \/ GeneralComment \/ InlineComment \/ ReviewAction
    \/ NextTransaction \/ FormatMarkdown

SpecFormat == FormatInit /\ [][FormatNext]_vars

(***************************************************************************)
(* Properties                                                              *)
(***************************************************************************)

\* the responses of the loop so far that were received: the request did not fail
ReceivedOk == { i \in 1..Len(received) : received[i].ok }

ScoreAt(i) == Score(received[i].text)

\* C1: after any sequence of responses, failed requests skipped, the retained
\* body has the greatest score among the bodies received and is the first
\* body received with that score; so a body of score 100 beats a body of
\* score 1 in either order.
C1_FirstMaxRetained ==
    pc \in {"fetch_loop", "fetch_done"} =>
        /\ \A i \in ReceivedOk :
              ( /\ ScoreAt(i) > 0
                /\ \A j \in ReceivedOk : ScoreAt(j) <= ScoreAt(i)
                /\ \A j \in ReceivedOk : j < i => ScoreAt(j) < ScoreAt(i) )
              => /\ best_response = <<received[i].text>>
                 /\ best_score = ScoreAt(i)
        /\ best_response # <<>> =>
              \E i \in ReceivedOk : /\ best_response = <<received[i].text>>
                                    /\ \A j \in ReceivedOk : ScoreAt(j) <= ScoreAt(i)
        /\ pc = "fetch_done" => fetch_result = best_response

\* C1 witness: score 1, then score 100, then another body of score 100; the
\* first body of score 100 is returned
C1_Witness ==
    /\ pc = "fetch_done"
    /\ Len(received) = 3
    /\ \A i \in 1..3 : received[i].ok
    /\ ScoreAt(1) = 1
    /\ ScoreAt(2) = 100
    /\ ScoreAt(3) = 100
    /\ received[3].text # received[2].text
    /\ fetch_result = <<received[2].text>>

\* C2: fetch_changeset_with_refs never returns a body of score 0, and it
\* returns None exactly when every request failed or gave a body of score 0.
C2_ZeroNeverReturned ==
    pc = "fetch_done" =>
        /\ fetch_result # <<>> => Score(fetch_result[1]) > 0
        /\ fetch_result = <<>> <=> \A i \in ReceivedOk : ScoreAt(i) = 0

\* C2 witness: a body of score 0 is received first, then a body of score 1,
\* then a request fails; the body of score 1 is returned
C2_Witness ==
    /\ pc = "fetch_done"
    /\ Len(received) = 3
    /\ received[1].ok
    /\ ScoreAt(1) = 0
    /\ received[2].ok
    /\ ScoreAt(2) = 1
    /\ ~received[3].ok
    /\ fetch_result = <<received[2].text>>

\* the requests that carried a Cookie header
WithCookies == { i \in 1..Len(net) : net[i].cookies # <<>> }

\* C10: session cookies are sourced once and cached: once a request has
\* carried cookies, every later request of the run carries the same values,
\* even if the browser store changes in between.
C10_CookiesSourcedOnce ==
    \A i \in WithCookies : \A j \in 1..Len(net) : i < j => net[j].cookies = net[i].cookies

\* C9: an override string of name=value pairs that holds both phsid and phusr,
\* in any order and with any whitespace around pairs, names and values, makes
\* extract_firefox_cookies return a map with both values, whitespace removed,
\* without reading the browser store; an override that lacks one of the two
\* names is ignored and the browser store is read instead.
C9_OverrideParsed ==
    pc = "cookie_done" =>
        LET valuesOf(n) == { env_pairs[i].value :
                               i \in { j \in 1..Len(env_pairs) : env_pairs[j].name = n } }
            both == cookie_env # NoEnv /\ valuesOf(PHSID) # {} /\ valuesOf(PHUSR) # {}
        IN  IF both
            THEN /\ cookies_out.ok
                 /\ ~cookies_out.store_read
                 /\ store_reads = 0
                 /\ HasRequired(cookies_out.cookies)
                 /\ cookies_out.cookies[PHSID] \in valuesOf(PHSID)
                 /\ cookies_out.cookies[PHUSR] \in valuesOf(PHUSR)
            ELSE /\ cookies_out.store_read
                 /\ store_reads = 1
                 /\ cookies_out.ok = extract_cookies_from_firefox_db(store).ok
                 /\ cookies_out.cookies = extract_cookies_from_firefox_db(store).cookies

\* C9 witness: phusr written before phsid, both padded with whitespace, and the
\* override accepted
C9_Witness ==
    /\ pc = "cookie_done"
    /\ Len(env_pairs) = 2
    /\ env_pairs[1].name = PHUSR
    /\ env_pairs[2].name = PHSID
    /\ env_pairs[1].ws[1] # <<>>
    /\ env_pairs[2].ws[4] # <<>>
    /\ cookies_out.ok
    /\ ~cookies_out.store_read
    /\ cookies_out.cookies[PHSID] = env_pairs[2].value

\* whether a text is the block of the suggestion format: the header
\* **Suggested changes:**, a blank line, the opening fence with diff, the
\* lines, the closing fence
IsSuggestionBlock(text) ==
    /\ Len(text) >= 8
    /\ SubSeq(text, 1, 6) = <<SuggestedHeader, "\n", "\n", Fence, "diff", "\n">>
    /\ SubSeq(text, Len(text) - 1, Len(text)) = <<"\n", Fence>>

\* C4: every result of parse_suggestions_from_ajax that is not None,
\* whichever strategy gave it, is a block of the suggestion format.
C4_AlwaysSuggestionBlock ==
    (pc = "parse_done" /\ parse_result # <<>>) => IsSuggestionBlock(parse_result[1])

\* the HTML fragment a body holds: payload.changeset of a JSON body, or the
\* body itself
BodyDoc(body) ==
    IF body.val.k = "html" THEN body.val.doc
    ELSE IF FromStr(body) # <<>> /\ ChangesetHtml(body.val) # <<>> THEN ChangesetHtml(body.val)[1]
    ELSE <<>>

\* the suggestions of the body under parse
BodySuggestions == DocSuggestions(BodyDoc(ajax_response[1]))

\* C5: for a body whose only suggestions have the done marker on an ancestor,
\* the parser returns None when include_done is false, and the text of the
\* suggestion when include_done is true.
C5_DoneSuppressed ==
    (/\ pc = "parse_done"
     /\ BodySuggestions # <<>>
     /\ \A i \in 1..Len(BodySuggestions) : BodySuggestions[i].is_done)
    => IF include_done
       THEN extract_suggestion_from_table(BodySuggestions[1].el) # <<>> => parse_result # <<>>
       ELSE parse_result = <<>>

\* C6: the strategies are tried in the order 1, 2, 3, 4 and the first result
\* that is not None is returned: the strategies tried so far are consecutive,
\* they start with 1 exactly when the body contains inline-suggestion-view and
\* with 2 otherwise, every strategy but the last one tried gave None, and the
\* value returned is what the last one gave, None only after strategy 4.
C6_FirstSuccessInOrder ==
    pc \in {"parse", "parse_done"} =>
        LET marker == TextContains(ajax_response[1], "inline-suggestion-view")
            n == Len(tried)
        IN  /\ \A i \in 1..n : tried[i].s = (IF marker THEN i ELSE i + 1)
            /\ \A i \in 1..(n - 1) : tried[i].out = <<>>
            /\ pc = "parse" => /\ \A i \in 1..n : tried[i].out = <<>>
                               /\ marker => strategy = n + 1
                               /\ ~marker => ((n = 0 /\ strategy = 1) \/ strategy = n + 2)
            /\ pc = "parse_done" => /\ n > 0
                                    /\ parse_result = tried[n].out
                                    /\ parse_result = <<>> => tried[n].s = 4

\* C6 witness: a body with the marker for which strategies 1, 2 and 3 give
\* nothing and strategy 4 gives the result returned
C6_Witness ==
    /\ pc = "parse_done"
    /\ Len(tried) = 4
    /\ tried[1].s = 1
    /\ tried[4].s = 4
    /\ tried[4].out # <<>>
    /\ parse_result = tried[4].out

\* the comments recorded so far
Inlines == comments_data.inline_comments
Generals == comments_data.general_comments

\* the transaction and the comment a record or a request belongs to
TxnAt(at) == transactions[at[1]]
CmtAt(at) == transactions[at[1]].comments[at[2]]

\* the requests of the suggestion pipeline
PipelineKinds ==
    {"GET page", "GET token", "GET csrf", "POST changeset", "POST revision.search",
     "POST transaction.search", "POST diff.search"}

PipelineRequestsFor(at) ==
    { i \in 1..Len(net) : net[i].kind \in PipelineKinds /\ net[i].at = at }

\* the line and the path the transaction gives, <<>> when it gives none
GivenLine(t) == GetAnd(FieldsOf(t), "line", as_u64)
GivenPath(t) == GetAnd(FieldsOf(t), "path", as_str)

\* C3: resolving an empty inline comment ends with a suggestion or the
\* placeholder as its content, and nothing in the pipeline aborts the run.
C3_NeverAborts ==
    /\ pc # "panic"
    /\ \A k \in 1..Len(Inlines) :
          RawOf(CmtAt(Inlines[k].at)) = <<>> => Inlines[k].content # <<>>

\* an inline comment with empty content whose line is 0 or missing or whose
\* path is empty or missing
Gated(at) ==
    /\ TypeOf(TxnAt(at)) = "inline"
    /\ RawOf(CmtAt(at)) = <<>>
    /\ \/ GivenLine(TxnAt(at)) = <<>>
       \/ IsZero(GivenLine(TxnAt(at))[1])
       \/ GivenPath(TxnAt(at)) = <<>>
       \/ GivenPath(TxnAt(at))[1] = <<>>

\* C7: for an empty inline comment whose line is 0 or missing or whose path
\* is empty, no request of the suggestion pipeline is sent and the recorded
\* content is the placeholder.
C7_GatedNotResolved ==
    /\ \A i \in 1..Len(net) : net[i].kind \in PipelineKinds => ~Gated(net[i].at)
    /\ \A k \in 1..Len(Inlines) :
          Gated(Inlines[k].at) => Inlines[k].content = InlinePlaceholder

\* C7 witness: the run is over and has recorded, with the placeholder, an
\* empty inline comment that has a path and line 0, after a comment of the
\* same transaction
C7_Witness ==
    /\ pc = "run_done"
    /\ \E k \in 1..Len(Inlines) :
          /\ k > 1
          /\ Gated(Inlines[k].at)
          /\ GivenLine(TxnAt(Inlines[k].at)) = <<U64(0)>>
          /\ GivenPath(TxnAt(Inlines[k].at)) = <<<<"a.rs">>>>
          /\ Inlines[k].content = InlinePlaceholder
          /\ PipelineRequestsFor(Inlines[k].at) = {}

\* the text of an identifier of the transaction data
IdText(v) == IF v.k = "str" THEN DecodeJson(v.raw) ELSE Decimal(v.u64)

\* the author, the timestamp and the identifiers of a record are those of
\* its transaction and comment
SameOrigin(rec) ==
    /\ TxnAt(rec.at).author_phid # <<>> => rec.author_phid = TxnAt(rec.at).author_phid[1]
    /\ rec.date_timestamp = TxnAt(rec.at).date_created
    /\ rec.transaction_id = IdText(TxnAt(rec.at).id)
    /\ rec.comment_id = IdText(CmtAt(rec.at).id)

\* a comment with content is recorded with that content and without a
\* request of the suggestion pipeline
ContentKept(rec) ==
    RawOf(CmtAt(rec.at)) # <<>> =>
        /\ rec.content = RawOf(CmtAt(rec.at))
        /\ PipelineRequestsFor(rec.at) = {}

\* C8: a comment whose raw content is not empty is recorded with that content
\* and without a pipeline request, and author, timestamp, path, line and
\* identifiers of every recorded comment are those of the transaction.
C8_TransactionDataUnchanged ==
    /\ \A k \in 1..Len(Generals) : ContentKept(Generals[k]) /\ SameOrigin(Generals[k])
    /\ \A k \in 1..Len(Inlines) :
          /\ ContentKept(Inlines[k])
          /\ SameOrigin(Inlines[k])
          /\ Inlines[k].file_path = UnwrapOr(GivenPath(TxnAt(Inlines[k].at)), <<>>)
          /\ GivenLine(TxnAt(Inlines[k].at)) # <<>> =>
                Widen(Inlines[k].line_number) = GivenLine(TxnAt(Inlines[k].at))[1]

\* C11: when the credential lookup has returned, no temporary copy of the
\* cookie store exists, whichever way it returned.
C11_TempFileRemoved == pc = "cookie_done" => temp_files = {}

\* the cookies for the domain in the store of a profile
ProfileCookies(p) == InsertRows(EmptyMap, p.rows)

\* the profiles whose store can be read and holds both required cookies
Holders ==
    { i \in 1..Len(store.profiles) :
        /\ store.profiles[i].open \in {"ok", "locked"}
        /\ HasRequired(ProfileCookies(store.profiles[i])) }

\* the holders that no other holder is newer than
NewestHolders ==
    { i \in Holders : \A j \in Holders : store.profiles[j].mtime <= store.profiles[i].mtime }

\* C12: when the browser store is read, the lookup succeeds with the cookies
\* of the newest profile holding both required cookies if there is one, and
\* fails only when no profile holds both.
C12_NewestHolderWins ==
    (pc = "cookie_done" /\ cookies_out.store_read) =>
        /\ Holders # {} =>
              /\ cookies_out.ok
              /\ \E i \in NewestHolders :
                    cookies_out.cookies = ProfileCookies(store.profiles[i])
        /\ Holders = {} => ~cookies_out.ok

\* the occurrences a stage of the cascade matches: 1 ref=N, 2 the alternate
\* encodings with the identifier lengths they take, 3 bare tokens of 7 or 8
\* digits, 4 ref=N in the query of a changeset URL
InStage(n, o) ==
    CASE n = 1 -> o.enc \in {"ref=", "url"}
      [] n = 2 -> \/ o.enc \in {"json", "jskey", "jsstr", "jsnum"} /\ Len(o.digits) >= 7
                  \/ o.enc = "htmlid" /\ Len(o.digits) \in 7..8
      [] n = 3 -> o.enc = "bare" /\ Len(o.digits) \in 7..8
      [] n = 4 -> o.enc = "url"

\* the identifiers a stage yields on a page
StageMatches(n, items) ==
    { items[i].digits : i \in { k \in 1..Len(items) : InStage(n, items[k]) } }

\* the first stage that yields an identifier, 0 when none does
FirstStage(items) ==
    IF \A n \in 1..4 : StageMatches(n, items) = {} THEN 0
    ELSE CHOOSE n \in 1..4 :
            /\ StageMatches(n, items) # {}
            /\ \A m \in 1..(n - 1) : StageMatches(m, items) = {}

\* extract_ref_parameters_from_page has read a page
PageRead == pc \in {"fetch_token", "changeset_ids"} /\ page_html # <<>>

C14_EachEncodingRecovered ==
    PageRead =>
        \A enc \in SeqToSet(AlternatePatterns) : \A ds \in RefDigits :
            ( /\ page_html[1] = <<RefOcc(enc, ds)>>
              /\ enc = "htmlid" => Len(ds) \in 7..8 )
            => ref_params = <<ds>>

\* C15: the fallback (the diff identifiers of the REST data and what follows
\* it) runs when and only when the cascade gave no reference; with a
\* reference, the body that is parsed is the result of the scored fetch.
C15_FallbackIffNoRefs ==
    /\ pc \in {"changeset_ids", "csrf", "specific", "probe"} => ref_params = <<>>
    /\ pc \in {"fetch_token", "fetch_loop", "fetch_done"} => ref_params # <<>>
    /\ (pc = "parse" /\ ref_params # <<>>) => ajax_response = fetch_result

\* the five identifiers next to the revision id, as try_fetch_file_specific_changeset
\* writes them
AdjacentRefs ==
    { Decimal(RevisionId), Decimal(AddU32(RevisionId, 1).val), Decimal(AddU32(RevisionId, 2).val),
      Decimal(SubU32(RevisionId, 1).val), Decimal(SubU32(RevisionId, 2).val) }

\* the changeset POSTs sent for a comment
ChangesetPostsFor(at) ==
    { i \in PipelineRequestsFor(at) : net[i].kind = "POST changeset" }

\* C16: when the cascade gave no reference and the REST data gave no diff
\* identifier, the pipeline gives up only after it has probed the five
\* identifiers next to the revision id.
C16_ProbesBeforeGivingUp ==
    (pc = "web_none" /\ ref_params = <<>> /\ changeset_ids = <<>>) =>
        \A r \in AdjacentRefs :
            \E i \in ChangesetPostsFor(<<txn_i, cmt_i>>) : net[i].ref = r

\* C17: every POST to the changeset endpoint carries the session cookies
\* when the credential lookup can resolve them, and a token header.
C17_PostsAuthenticated ==
    \A i \in 1..Len(net) :
        net[i].kind = "POST changeset" =>
            /\ extract_firefox_cookies(cookie_env, store).ok => net[i].cookies # <<>>
            /\ net[i].csrf # "-"

\* a text with a character of a diff: a sign or the marker of a hunk
DiffIndicative(text) == \E w \in {"+", "-", "@@", "uuuu"} : Contains(text, w)

\* the lines inside a block of the suggestion format
BlockLines(block) == SubSeq(block, 7, Len(block) - 2)

\* what strategy 2 gave for the body under parse, <<>> when it has not run
\* or gave None
JsonGave ==
    IF \E i \in 1..Len(tried) : tried[i].s = 2 /\ tried[i].out # <<>>
    THEN (CHOOSE e \in SeqToSet(tried) : e.s = 2).out
    ELSE <<>>

\* C18: the JSON strategy returns a suggestion only for a suggestionText
\* value with a diff-indicative character, and takes it from the regex
\* capture only when the body does not parse as JSON.
C18_JsonOnlyDiffText ==
    JsonGave # <<>> =>
        /\ DiffIndicative(BlockLines(JsonGave[1]))
        /\ FromStr(ajax_response[1]) # <<>> =>
              find_suggestion_text_recursive(FromStr(ajax_response[1])[1]) # <<>>

\* two diff lines joined by the escape of a newline, as a string literal
\* holds them, and the two lines as text
EscapedDiff == <<"-", "x", "\\", "n", "+", "y">>
DiffOnTwoLines == <<"-", "x", "\n", "+", "y">>

\* the well-formed JSON objects whose suggestionText member holds the literal
DiffTextBodies(prefix) == {FlatTextBody(prefix, EscapedDiff), TextBody(prefix, TRUE, EscapedDiff)}

Artifact(text) == Trim(text) \in {<<>>, <<"}">>, <<"{">>, <<"break;">>}

\* whether a row has a cell of the two classes
RowClassed(row, a, b) == \E i \in 1..Len(RowCells(row)) : Adjacent(RowCells(row)[i].cls, a, b)

\* the lines of a row: the sign, a blank and the trimmed text of the row, for
\* the old side and then for the new side
SignedRowLines(row) ==
    LET line(sign) == IF Artifact(RowText(row)) THEN <<>>
                      ELSE << <<sign, " ">> \o Trim(RowText(row)) >>
    IN  (IF RowClassed(row, "left", "old") THEN line("-") ELSE <<>>)
        \o (IF RowClassed(row, "right", "new") THEN line("+") ELSE <<>>)

\* what strategy 1 is to give for the rows of a suggestion table
SignedLines(rows) ==
    IF FlatMap(SignedRowLines, rows) = <<>> THEN <<>>
    ELSE <<Join(FlatMap(SignedRowLines, rows), <<"\n">>)>>

\* C20: the inline-suggestion strategy gives, row by row, the sign and the
\* trimmed text of every row classed left old or right new, and leaves out
\* only empty rows, bare braces and break; lines.
C20_RowsSignedAndTrimmed ==
    \A done \in BOOLEAN : \A rows \in SuggestionRows :
        ( /\ Len(tried) >= 1
          /\ tried[1].s = 1
          /\ FromStr(ajax_response[1]) # <<>>
          /\ BodyDoc(ajax_response[1]) = <<Suggestion(done, rows)>> )
        => tried[1].out = SignedLines(rows)

\* the alternatives of the selector groups in the order of their priority, as
\* the classes a cell must have
OldPatterns == <<{"left", "old"}, {"old"}, {"diff-old"}>>
NewPatterns == <<{"right", "new"}, {"new"}, {"diff-new"}>>

PatternMatches(c, pat) == pat \subseteq SeqToSet(c.cls)

\* the first cell of the row that the alternative of highest priority with a
\* match in the row matches, as a zero- or one-element sequence
PriorityCell(row, pats) ==
    LET cells == RowCells(row)
        hit(p) == { i \in 1..Len(cells) : PatternMatches(cells[i], pats[p]) }
        used == { p \in 1..Len(pats) : hit(p) # {} }
    IN  IF used = {} THEN <<>>
        ELSE LET best == CHOOSE p \in used : \A q \in used : p <= q
             IN  <<cells[CHOOSE i \in hit(best) : \A j \in hit(best) : i <= j]>>

\* the lines of a row when the cells are taken by priority
PriorityRowLines(row) ==
    LET line(sign, cell) ==
            LET text == IF cell = <<>> THEN <<>> ELSE Trim(CellText(cell[1]))
                cleaned == Trim(TrimStartMatches(text, <<sign, " ">>))
            IN  IF text # <<>> /\ text # <<sign>> /\ cleaned # <<>>
                THEN << <<sign, " ">> \o cleaned >> ELSE <<>>
    IN  line("-", PriorityCell(row, OldPatterns)) \o line("+", PriorityCell(row, NewPatterns))

\* what strategy 4 gave for the body under parse, as a zero- or one-element
\* sequence of results
SelectorGave ==
    IF \E i \in 1..Len(tried) : tried[i].s = 4
    THEN <<(CHOOSE e \in SeqToSet(tried) : e.s = 4).out>>
    ELSE <<>>

\* C21: in the selector strategy the cell used for a side of a row is one
\* matched by the alternative of highest priority that matches any cell of
\* the row.
C21_SelectorPriority ==
    \A rows \in SuggestionRows \cup MixedRows :
        (SelectorGave # <<>> /\ BodyDoc(ajax_response[1]) = <<Suggestion(FALSE, rows)>>)
        => SelectorGave[1] = (IF FlatMap(PriorityRowLines, rows) = <<>> THEN <<>>
                              ELSE <<Join(FlatMap(PriorityRowLines, rows), <<"\n">>)>>)

Within(text, piece) ==
    \E i \in 1..(Len(text) - Len(piece) + 1) : SubSeq(text, i, i + Len(piece) - 1) = piece

\* the lines of the Markdown that start with a prefix, in their order
MarkdownLines(prefix) ==
    SelectSeq(Split(markdown[1], "\n"), LAMBDA l : l # <<>> /\ l[1] = prefix)

GeneralHeadings == MarkdownLines("### Comment by ")
InlineHeadings == MarkdownLines("#### ")

\* the date written in a heading: what stands between its last parentheses
HeadingDate(l) ==
    LET k == CHOOSE n \in 1..Len(l) : l[n] = ")" /\ \A m \in (n + 1)..Len(l) : l[m] # ")"
    IN  SubSeq(l, k - Len(format_timestamp(0)), k - 1)

\* the creation timestamp of the transaction whose date a heading shows
HeadingStamp(l) ==
    CHOOSE t \in { transactions[i].date_created : i \in 1..Len(transactions) } :
        format_timestamp(t) = HeadingDate(l)

\* C23: the Markdown holds the content of every general comment and of
\* every inline comment that was recorded, and names the action of every
\* review action that was recorded.
C23_AllRendered ==
    pc = "formatted" =>
        /\ \A i \in 1..Len(Generals) : Within(markdown[1], Generals[i].content)
        /\ \A i \in 1..Len(Inlines) : Within(markdown[1], Inlines[i].content)
        /\ \A i \in 1..Len(comments_data.review_actions) :
              Contains(markdown[1], comments_data.review_actions[i].action)

NonDecreasing(headings) ==
    \A i, j \in 1..Len(headings) : i < j => HeadingStamp(headings[i]) <= HeadingStamp(headings[j])

\* C24: in the Markdown the headings of the general comments stand in
\* non-decreasing order of creation timestamp, and so do the headings of the
\* inline comments, whatever the order of the transactions.
C24_Chronological ==
    pc = "formatted" => NonDecreasing(GeneralHeadings) /\ NonDecreasing(InlineHeadings)

\* whether the fields of a transaction say isDone: true
TxnDone(t) ==
    /\ t.fields # <<>>
    /\ \E i \in 1..Len(t.fields[1].fields) :
          t.fields[1].fields[i] = Field("isDone", JBool(TRUE))

\* the dates of the inline transactions that are done
DoneDates ==
    { format_timestamp(transactions[i].date_created) :
        i \in { n \in 1..Len(transactions) :
                  /\ transactions[n].transaction_type = <<"inline">>
                  /\ transactions[n].comments # <<>>
                  /\ TxnDone(transactions[n]) } }

\* C25: when done comments are not included, no comment of a done
\* transaction is recorded or has a heading in the Markdown; when they are
\* included, each has a heading that ends with the marker; and a heading that
\* ends with the marker is the heading of a comment of a done transaction.
C25_DoneFilter ==
    /\ ~include_done => \A i \in 1..Len(Inlines) : ~TxnDone(transactions[Inlines[i].at[1]])
    /\ pc = "formatted" =>
         /\ ~include_done =>
               \A i \in 1..Len(InlineHeadings) : HeadingDate(InlineHeadings[i]) \notin DoneDates
         /\ include_done =>
               \A date \in DoneDates :
                   \E i \in 1..Len(InlineHeadings) :
                       /\ HeadingDate(InlineHeadings[i]) = date
                       /\ InlineHeadings[i][Len(InlineHeadings[i])] = DoneMarker
         /\ \A i \in 1..Len(InlineHeadings) :
               InlineHeadings[i][Len(InlineHeadings[i])] = DoneMarker
               => HeadingDate(InlineHeadings[i]) \in DoneDates

\* C25 witness: a Markdown with done comments included that has a heading
\* with the marker and a heading without it
C25_Witness ==
    /\ pc = "formatted"
    /\ include_done
    /\ \E i, j \in 1..Len(InlineHeadings) :
          /\ InlineHeadings[i][Len(InlineHeadings[i])] = DoneMarker
          /\ InlineHeadings[j][Len(InlineHeadings[j])] # DoneMarker

\* when the scan of the stage that gave the references comes to the
\* occurrence k of the page: the stages go through the text once, the second
\* stage once for each of its patterns, in the order of the patterns
ScanTime(items, k) ==
    IF FirstStage(items) = 2
    THEN (CHOOSE p \in 1..Len(AlternatePatterns) : AlternatePatterns[p] = items[k].enc)
         * (Len(items) + 1) + k
    ELSE k

\* when the scan first sees an identifier
FirstSeen(items, v) ==
    LET times == { ScanTime(items, k) :
                     k \in { n \in 1..Len(items) :
                               InStage(FirstStage(items), items[n]) /\ items[n].digits = v } }
    IN  CHOOSE t \in times : \A u \in times : t <= u

\* C26: the references returned for a page hold no value twice and stand in
\* the order in which the extraction first saw them.
C26_DistinctFirstSeen ==
    PageRead =>
        /\ \A i, j \in 1..Len(ref_params) : i # j => ref_params[i] # ref_params[j]
        /\ \A i, j \in 1..Len(ref_params) :
              i < j => FirstSeen(page_html[1], ref_params[i]) < FirstSeen(page_html[1], ref_params[j])

\* C26 witness: a page that holds one reference twice gives it once
C26_Witness ==
    /\ PageRead
    /\ page_html[1] = <<RefOcc("ref=", Decimal(U32(8450617))), RefOcc("url", Decimal(U32(8450617)))>>
    /\ ref_params = <<Decimal(U32(8450617))>>

\* the requests of the resolution under way, in the order they were sent
ResolutionRequests == SelectSeq(net, LAMBDA q : q.at = <<txn_i, cmt_i>> /\ q.kind \in PipelineKinds)

\* the changeset POSTs among them
ResolutionPosts == SelectSeq(ResolutionRequests, LAMBDA q : q.kind = "POST changeset")

\* the loop over the references has been entered
LoopEntered ==
    /\ ref_params # <<>>
    /\ pc \in {"fetch_loop", "fetch_done", "parse", "parse_done", "changeset_ids", "csrf",
               "specific", "probe", "web_none"}

\* C27: in a resolution the GET of the revision page precedes every
\* changeset POST, a GET for the token precedes the first changeset POST,
\* the POSTs of the loop carry the references in the order of the list, one
\* for each outcome received, and the parser starts only when every
\* reference has been posted and scored.
C27_SequentialByDependency ==
    /\ \A i \in 1..Len(ResolutionRequests) :
          ResolutionRequests[i].kind = "POST changeset" =>
              /\ ResolutionRequests[1].kind = "GET page"
              /\ \E g \in 2..(i - 1) : ResolutionRequests[g].kind \in {"GET token", "GET csrf"}
    /\ LoopEntered =>
          /\ Len(received) <= Len(ref_params)
          /\ Len(received) <= Len(ResolutionPosts)
          /\ pc = "fetch_loop" => Len(received) = Len(ResolutionPosts) /\ ref_i = Len(received) + 1
          /\ \A k \in 1..Len(received) : ResolutionPosts[k].ref = ref_params[k]
    /\ (pc \in {"parse", "parse_done"} /\ ref_params # <<>>) => Len(received) = Len(ref_params)

\* C27 witness: the parser has started on the body retained from the POSTs
\* of two references
C27_Witness ==
    /\ pc = "parse"
    /\ Len(ref_params) = 2
    /\ ref_params[1] # ref_params[2]
    /\ Len(received) = 2
    /\ ajax_response = fetch_result

\* the user lookups sent for an identifier
LookupsFor(user_phid) ==
    { i \in 1..Len(net) : net[i].kind = "POST user.search" /\ net[i].ref = user_phid }

\* the identifiers get_user_info has been called for
LookedUp ==
    { UnwrapOr(transactions[i].author_phid, Unknown) :
        i \in { n \in 1..Len(transactions) : n < txn_i \/ (n = txn_i /\ pc = "match") } }

\* C28: the cache holds a name for every identifier get_user_info has been
\* called for, one lookup request at most has been sent for an identifier,
\* a call for a cached identifier returns the cached name and sends nothing,
\* and no entry of the cache is ever changed or removed.
C28_CacheMemoises ==
    /\ [](/\ \A user_phid \in LookedUp :
               user_phid \in DOMAIN user_cache /\ Cardinality(LookupsFor(user_phid)) = 1
          /\ pc = "match" => author_name = user_cache[UnwrapOr(Txn.author_phid, Unknown)])
    /\ [][/\ \A user_phid \in DOMAIN user_cache :
               user_phid \in DOMAIN user_cache' /\ user_cache'[user_phid] = user_cache[user_phid]
          /\ (pc = "txn" /\ pc' = "match"
              /\ UnwrapOr(Txn.author_phid, Unknown) \in DOMAIN user_cache)
             => net' = net /\ author_name' = user_cache[UnwrapOr(Txn.author_phid, Unknown)]]_vars

\* C28 witness: the second call for a user whose lookup failed has returned
\* the cached name, with one request sent
C28_Witness ==
    /\ pc = "match"
    /\ txn_i = 2
    /\ transactions[1].author_phid = transactions[2].author_phid
    /\ user_cache[UnwrapOr(Txn.author_phid, Unknown)] = UnwrapOr(Txn.author_phid, Unknown)
    /\ Len(net) = 1

\* the decimal text of the integer u + n
ExactPlus(u, n) ==
    LET lo == u[1] + n
        hi == u[2] + (lo \div Limb)
    IN  Decimal(<<lo % Limb, hi % Limb, hi \div Limb, 0>>)

\* the decimal text of the integer u - n
ExactMinus(u, n) ==
    IF u[2] > 0 \/ u[1] >= n THEN Decimal(SubU32(u, n).val)
    ELSE <<"-">> \o Decimal(U32(n - u[1]))

\* C30: try_fetch_file_specific_changeset does not panic on the five
\* identifiers, and they are the decimal texts of the integers id, id + 1,
\* id + 2, id - 1 and id - 2.
C30_ProbesExact ==
    /\ [](potential_refs # <<>> =>
            potential_refs = <<Decimal(RevisionId), ExactPlus(RevisionId, 1),
                               ExactPlus(RevisionId, 2), ExactMinus(RevisionId, 1),
                               ExactMinus(RevisionId, 2)>>)
    /\ [][(pc = "specific" /\ id_i > Len(changeset_ids)) => pc' # "panic"]_vars

====
